---- MODULE Spec2Model ----
(***************************************************************************)
(* Skippy: an intrusive B+-tree ("skip list") whose leaves are user-owned  *)
(* items.  The model keeps the pointer structure of the implementation:   *)
(* every item has one next-slot, every internal node has next, down, len, *)
(* size and key, and the operations are transcribed from                  *)
(* src/src/list/{mod,insert,remove,split,traverse}.rs.                    *)
(*                                                                         *)
(* Items are 1..NumItems; the key of item i is i itself (StoreKeys<true>  *)
(* clones the leaf handle as the key).  Internal nodes come from a pool   *)
(* 1..MaxNodes; the allocator hands out the lowest free one.              *)
(***************************************************************************)
EXTENDS Integers, Sequences, FiniteSets, TLC

\* ------------------------------------------------------------------ bounds
NumItems == 11
MaxSize == 2
MaxBatch == 3
MaxResized == 1
SortedItems == 6
ReplaceItems == 6
DropItems == 6
MisuseItems == 5
OtherItems == 5
AttachedBatch == 2
MaxFanout == 6
MaxChain == 9
ZeroItems == 6
WalkItems == 8
WalkBatch == 4

Items == 1..NumItems
MaxNodes == NumItems
Nodes == 1..MaxNodes
Fanouts == {2, 4, 5}

VARIABLES
    fanout,     \* ListOptions::Fanout::VALUE of this list type
    store_keys, \* ListOptions::StoreKeys of this list type
    capacity,   \* the number of items the client owns
    lnext,      \* item -> its next-slot
    isize,      \* item -> LeafRef::size()
    nnext,      \* internal node -> next
    down,       \* internal node -> first child
    len,        \* internal node -> number of children
    size,       \* internal node -> cached sum of the children's sizes
    key,        \* internal node -> cached key (0 is None)
    allocated,  \* internal node -> allocated and not yet deallocated
    root,       \* SkipList::root
    can_safely_destroy, \* destroy_safety::CAN_SAFELY_DESTROY
    ref,        \* reference vector mutated by the same splices (tests.rs)
    lastOp,     \* the operation that produced this state
    split_iter, \* a Split<N> that is driven on its own (NoSplit: none is)
    chunks,     \* the InternalNodeSetups that split_iter has yielded
    walk        \* the upward walk of an insert_after or remove in progress

vars == <<fanout, store_keys, capacity, lnext, isize, nnext, down, len, size,
          key, allocated, root, can_safely_destroy, ref, lastOp, split_iter,
          chunks, walk>>

\* ------------------------------------------------------------ node model
Leaf(i) == [kind |-> "leaf", id |-> i]
Internal(n) == [kind |-> "internal", id |-> n]
NoRef == [kind |-> "none", id |-> 0]

NoNext == [tag |-> "none", node |-> NoRef]
Sibling(r) == [tag |-> "sibling", node |-> r]
Parent(n) == [tag |-> "parent", node |-> n]

Heap == [store_keys |-> store_keys, lnext |-> lnext, isize |-> isize,
         nnext |-> nnext, down |-> down, len |-> len, size |-> size,
         key |-> key, allocated |-> allocated]

next(h, r) == IF r.kind = "leaf" THEN h.lnext[r.id] ELSE h.nnext[r.id]

set_next(h, r, nx) ==
    IF r.kind = "leaf" THEN [h EXCEPT !.lnext[r.id] = nx]
    ELSE [h EXCEPT !.nnext[r.id] = nx]

next_sibling(h, r) ==
    IF next(h, r).tag = "sibling" THEN next(h, r).node ELSE NoRef

node_size(h, r) == IF r.kind = "leaf" THEN h.isize[r.id] ELSE h.size[r.id]

\* NodeRef::key: StoreKeys<true> clones the leaf itself as its key; 0 is None.
node_key(h, r) ==
    IF r.kind = "leaf" THEN (IF h.store_keys THEN r.id ELSE 0)
    ELSE h.key[r.id]

set_down(h, n, d) == [h EXCEPT !.down[n.id] = d]

min2(a, b) == IF a < b THEN a ELSE b
max2(a, b) == IF a > b THEN a ELSE b

max_node_length(f) == max2(f, 3)

\* min_node_length with the half rounded up.
min_node_length_rounded_up(f) == (max_node_length(f) + 2) \div 2

min_node_length(f) == (max_node_length(f) + 1) \div 2

\* InternalNodeRef::alloc: a fresh InternalNode::default() in the lowest free
\* slot of the pool.
FreeNodes(h) == {n \in Nodes : ~h.allocated[n]}

lowest_free(h) == CHOOSE m \in FreeNodes(h) : \A k \in FreeNodes(h) : m <= k

alloc_at(h, n) ==
    [node |-> Internal(n),
     h |-> [h EXCEPT !.allocated[n] = TRUE, !.nnext[n] = NoNext,
                     !.down[n] = NoRef, !.len[n] = 0, !.size[n] = 0,
                     !.key[n] = 0]]

alloc(h) == alloc_at(h, lowest_free(h))

\* InternalNodeRef::dealloc: the memory is gone; the slot is reset so that
\* freed slots are indistinguishable.
dealloc(h, n) ==
    [h EXCEPT !.allocated[n.id] = FALSE, !.nnext[n.id] = NoNext,
              !.down[n.id] = NoRef, !.len[n.id] = 0, !.size[n.id] = 0,
              !.key[n.id] = 0]

\* ------------------------------------------------------------- traversal
RECURSIVE parent_walk(_, _, _, _)
parent_walk(h, nx, last, count) ==
    IF nx.tag = "parent"
    THEN [parent |-> nx.node, last |-> last,
          index |-> h.len[nx.node.id] - (count + 1)]
    ELSE parent_walk(h, next(h, nx.node), nx.node, count + 1)

get_parent_info(h, node) ==
    IF next(h, node).tag = "none"
    THEN [parent |-> NoRef, last |-> node, index |-> 0]
    ELSE parent_walk(h, next(h, node), node, 0)

get_parent(h, node) == get_parent_info(h, node).parent

get_last_sibling(h, node) == get_parent_info(h, node).last

RECURSIVE get_nth_sibling(_, _, _)
get_nth_sibling(h, node, n) ==
    IF n = 0 THEN node
    ELSE IF next(h, node).tag # "sibling" THEN NoRef
    ELSE get_nth_sibling(h, next(h, node).node, n - 1)

\* get_previous_info once the parent is known.  previous is NoNext when the
\* node has no parent, else Sibling(prev) or Parent(parent).
previous_from(h, info) ==
    IF info.parent = NoRef
    THEN [last |-> info.last, index |-> info.index, previous |-> NoNext,
          parent |-> NoRef]
    ELSE [last |-> info.last, index |-> info.index,
          previous |->
             IF info.index = 0 THEN Parent(info.parent)
             ELSE Sibling(get_nth_sibling(h, h.down[info.parent.id],
                                          info.index - 1)),
          parent |-> info.parent]

get_previous_info(h, node) == previous_from(h, get_parent_info(h, node))

get_previous(h, node) == get_previous_info(h, node).previous

\* ----------------------------------------------------------- split planner
\* Split<N>: node is the start of the next chunk (NoRef once exhausted).
\* split with the number of chunks rounded up.
split_rounding_up(f, node, length) ==
    LET num_chunks == max2(1, (length - 1 + min_node_length(f) - 1)
                                  \div min_node_length(f))
    IN [node |-> node, chunk_len |-> length \div num_chunks,
        extra |-> length % num_chunks]

split(f, node, length) ==
    LET num_chunks == max2(1, (length - 1) \div min_node_length(f))
    IN [node |-> node, chunk_len |-> length \div num_chunks,
        extra |-> length % num_chunks]

NoSplit == [node |-> NoRef, chunk_len |-> 0, extra |-> 0]

\* No call is in progress; steps, levels and top tell of the last walk that
\* ended.
Idle(steps, lv, top_reached) ==
    [op |-> "none", at |-> NoRef, head |-> NoRef, pos |-> 0, steps |-> steps,
     levels |-> lv, top |-> top_reached]

NoWalk == Idle(0, 0, FALSE)

RECURSIVE chunk_walk(_, _, _, _)
chunk_walk(h, node, sz, steps) ==
    IF steps <= 0 THEN [end |-> node, size |-> sz]
    ELSE chunk_walk(h, next_sibling(h, node),
                    sz + node_size(h, next_sibling(h, node)), steps - 1)

\* The Some(...) of <Split as Iterator>::next, w being the walk to the end of
\* the chunk.
chunk(h, it, length, extra, w) ==
    [some |-> TRUE,
     setup |-> [start |-> it.node, end |-> w.end, len |-> length,
                size |-> w.size],
     it |-> [node |-> next_sibling(h, w.end), chunk_len |-> it.chunk_len,
             extra |-> extra]]

\* <Split as Iterator>::next: some = FALSE is None.
split_next(h, it) ==
    LET length == it.chunk_len + (IF it.extra > 0 THEN 1 ELSE 0)
        extra == max2(it.extra - 1, 0)
    IN IF it.node = NoRef
       THEN [some |-> FALSE, setup |-> NoRef,
             it |-> [it EXCEPT !.extra = extra]]
       ELSE chunk(h, it, length, extra,
                  chunk_walk(h, it.node, node_size(h, it.node), length - 1))

\* apply_to without `node.key.set(self.start.key())`.
apply_to_keyless(h, setup, node) ==
    set_next([h EXCEPT !.len[node.id] = setup.len,
                       !.size[node.id] = setup.size,
                       !.down[node.id] = setup.start],
             setup.end, Parent(node))

\* InternalNodeSetup::apply_to
apply_to(h, setup, node) ==
    set_next([h EXCEPT !.len[node.id] = setup.len,
                       !.size[node.id] = setup.size,
                       !.down[node.id] = setup.start,
                       !.key[node.id] = node_key(h, setup.start)],
             setup.end, Parent(node))

\* InternalNodeSetup::into_new, a being the allocation.
setup_new(a, setup) == [node |-> a.node, h |-> apply_to(a.h, setup, a.node)]

into_new(h, setup) == setup_new(alloc(h), setup)

\* ----------------------------------------------------------- insert engine
\* The `.map(...).count()` loop of handle_insertion over the remaining
\* chunks: s is what the iterator yields, n the node made of it.
RECURSIVE split_rest(_, _, _, _)
link_new(n, s, parent, count) ==
    split_rest(set_next(n.h, parent, Sibling(n.node)), s.it, n.node,
               count + 1)

split_each(h, s, parent, count) ==
    IF ~s.some THEN [h |-> h, parent |-> parent, count |-> count]
    ELSE link_new(into_new(h, s.setup), s, parent, count)

split_rest(h, it, parent, count) ==
    split_each(h, split_next(h, it), parent, count)

\* The fast path taken only when the node stays below max_node_length.
use_fast_insertion_below(f, new_len, insertion) ==
    new_len < max_node_length(f) /\ insertion.root = NoRef

use_fast_insertion(f, new_len, insertion) ==
    new_len <= max_node_length(f) /\ insertion.root = NoRef

\* `iter.next().unwrap().apply_to(parent)` and the loop after it.
split_first(h, s, parent) ==
    split_rest(apply_to(h, s.setup, parent), s.it, parent, 0)

\* `parent.set_next(end)` and the Insertion that handle_insertion returns.
split_done(r, end, insertion, parent) ==
    [done |-> FALSE, h |-> set_next(r.h, r.parent, end),
     insertion |-> [count |-> r.count, first |-> parent, last |-> r.parent,
                    diff |-> insertion.diff, root |-> insertion.root],
     old_root |-> NoRef, new_root |-> NoRef]

\* handle_insertion from `let first_parent = parent;` on.  `insertion.root` has
\* already been filled in by the caller when the level had no parent.
insert_into_parent(f, h, insertion, parent) ==
    LET new_len == h.len[parent.id] + insertion.count
    IN IF use_fast_insertion(f, new_len, insertion)
       THEN [done |-> FALSE,
             h |-> [h EXCEPT !.len[parent.id] = new_len,
                             !.size[parent.id] = @ + insertion.diff],
             insertion |-> [count |-> 0, first |-> parent, last |-> parent,
                            diff |-> insertion.diff, root |-> insertion.root],
             old_root |-> NoRef, new_root |-> NoRef]
       ELSE split_done(
                split_first(h,
                            split_next(h, split(f, h.down[parent.id], new_len)),
                            parent),
                next(h, parent), insertion, parent)

\* The level that has no parent: the root is reached, or a root is created.
with_root(insertion) ==
    [insertion EXCEPT !.root = IF @ = NoRef THEN insertion.first ELSE @]

new_root(a, first) ==
    [node |-> a.node,
     h |-> [set_down(a.h, a.node, first) EXCEPT !.len[a.node.id] = 1]]

insert_at_top(f, h, ins, parent) ==
    IF parent.node = NoRef
    THEN [done |-> TRUE, h |-> h, insertion |-> ins,
          old_root |-> ins.root, new_root |-> ins.first]
    ELSE insert_into_parent(f, parent.h, ins, parent.node)

handle_insertion(f, h, insertion) ==
    insert_at_top(f, h,
        IF get_parent(h, insertion.last) # NoRef THEN insertion
        ELSE with_root(insertion),
        IF get_parent(h, insertion.last) # NoRef
        THEN [node |-> get_parent(h, insertion.last), h |-> h]
        ELSE IF next_sibling(h, insertion.first) = NoRef
        THEN [node |-> NoRef, h |-> h]
        ELSE new_root(alloc(h), insertion.first))

RECURSIVE insertion_loop(_, _, _)
insertion_next(f, r) ==
    IF r.done
    THEN [h |-> r.h, old_root |-> r.old_root, new_root |-> r.new_root,
          panic |-> FALSE]
    ELSE insertion_loop(f, r.h, r.insertion)

insertion_loop(f, h, insertion) ==
    insertion_next(f, handle_insertion(f, h, insertion))

\* The linking loop of insert_after without its assert.
RECURSIVE link_items_unchecked(_, _, _, _)
link_items_unchecked(h, pos, items, k) ==
    IF k > Len(items) THEN [h |-> h, pos |-> pos, ok |-> TRUE]
    ELSE link_items_unchecked(set_next(h, pos, Sibling(Leaf(items[k]))),
                              Leaf(items[k]), items, k + 1)

\* The `.map(...).count()` loop of insert_after: links items[k..] after pos.
\* ok = FALSE when the assert "item is already in a list" fails at some item;
\* the items before it are linked in by then.
RECURSIVE link_items(_, _, _, _)
link_items(h, pos, items, k) ==
    IF k > Len(items) THEN [h |-> h, pos |-> pos, ok |-> TRUE]
    ELSE IF h.lnext[items[k]] # NoNext THEN [h |-> h, pos |-> pos, ok |-> FALSE]
    ELSE link_items(set_next(h, pos, Sibling(Leaf(items[k]))),
                    Leaf(items[k]), items, k + 1)

RECURSIVE SumSizes(_, _, _)
SumSizes(h, items, k) ==
    IF k > Len(items) THEN 0 ELSE h.isize[items[k]] + SumSizes(h, items, k + 1)

\* insert_after once the items are linked in: l is the outcome of the loop.
insert_linked(f, pos, count, diff, end, l) ==
    IF ~l.ok
    THEN [h |-> l.h, old_root |-> NoRef, new_root |-> NoRef, panic |-> TRUE]
    ELSE insertion_loop(f, set_next(l.h, l.pos, end),
                        [count |-> count, first |-> pos, last |-> l.pos,
                         diff |-> diff, root |-> NoRef])

\* insert::insert_after(pos, items, alloc) -> FinishedInsertion; panic when
\* the assert inside the linking loop fails.
insert_after(f, h, pos, items) ==
    insert_linked(f, pos, Len(items), SumSizes(h, items, 1), next(h, pos),
                  link_items(h, pos, items, 1))

\* ----------------------------------------------------------- remove engine
Removal(child, kind, diff) == [child |-> child, kind |-> kind, diff |-> diff]

Continue(h, removal) == [done |-> FALSE, h |-> h, removal |-> removal]

\* "Transfer child from right sibling."
transfer_from_right(h, p, r, last, right_first, right_second) ==
    LET h1 == [h EXCEPT !.len[r] = @ - 1, !.len[p] = @ + 1,
                        !.size[r] = @ - node_size(h, right_first),
                        !.size[p] = @ + node_size(h, right_first),
                        !.down[r] = right_second]
        h2 == set_next(h1, right_first, next(h1, last))
    IN set_next([h2 EXCEPT !.key[r] = node_key(h2, right_second)],
                last, Sibling(right_first))

\* "Merge with right sibling."
merge_with_right(h, p, r, first, last, right_first) ==
    [set_next(h, last, Sibling(right_first))
        EXCEPT !.down[r] = first, !.down[p] = NoRef,
               !.size[r] = @ + h.size[p], !.size[p] = 0,
               !.len[r] = @ + h.len[p], !.len[p] = 0]

\* "Transfer child from left sibling."
transfer_from_left(h, p, l, first, left_penultimate, left_last) ==
    LET h1 == [h EXCEPT !.len[l] = @ - 1, !.len[p] = @ + 1,
                        !.size[l] = @ - node_size(h, left_last),
                        !.size[p] = @ + node_size(h, left_last)]
        h2 == set_next(h1, left_penultimate, next(h1, left_last))
    IN [set_next(h2, left_last, Sibling(first))
          EXCEPT !.down[p] = left_last, !.key[p] = node_key(h, left_last)]

\* merge_with_left without `last.set_next(parent(left))`.
merge_with_left_keeping_parent(h, p, left, first, last, left_last) ==
    [set_next(h, left_last, Sibling(first))
        EXCEPT !.down[p] = NoRef,
               !.size[left.id] = @ + h.size[p], !.size[p] = 0,
               !.len[left.id] = @ + h.len[p], !.len[p] = 0]

\* "Merge with left sibling."
merge_with_left(h, p, left, first, last, left_last) ==
    [set_next(set_next(h, left_last, Sibling(first)), last, Parent(left))
        EXCEPT !.down[p] = NoRef,
               !.size[left.id] = @ + h.size[p], !.size[p] = 0,
               !.len[left.id] = @ + h.len[p], !.len[p] = 0]

\* rebalance_right taking a child from a right sibling that is at
\* min_node_length already.
rebalance_right_at_min(f, h, parent, first, last, diff, right) ==
    IF h.len[right.id] >= min_node_length(f)
    THEN Continue(transfer_from_right(h, parent.id, right.id, last,
                     h.down[right.id], next_sibling(h, h.down[right.id])),
                  Removal(parent, "Update", diff))
    ELSE Continue(merge_with_right(h, parent.id, right.id, first, last,
                                   h.down[right.id]),
                  Removal(parent, "Remove", diff))

\* handle_removal with the right sibling as the neighbor.
rebalance_right(f, h, parent, first, last, diff, right) ==
    IF h.len[right.id] > min_node_length(f)
    THEN Continue(transfer_from_right(h, parent.id, right.id, last,
                     h.down[right.id], next_sibling(h, h.down[right.id])),
                  Removal(parent, "Update", diff))
    ELSE Continue(merge_with_right(h, parent.id, right.id, first, last,
                                   h.down[right.id]),
                  Removal(parent, "Remove", diff))

\* handle_removal with the left sibling as the neighbor.
rebalance_left(f, h, parent, first, last, diff, left, left_penultimate) ==
    IF h.len[left.id] > min_node_length(f)
    THEN Continue(transfer_from_left(h, parent.id, left.id, first,
                     left_penultimate, next_sibling(h, left_penultimate)),
                  Removal(parent, "Update", diff))
    ELSE Continue(merge_with_left(h, parent.id, left, first, last,
                                  next_sibling(h, left_penultimate)),
                  Removal(parent, "Remove", diff))

left_neighbor(f, h, parent, first, last, diff, left) ==
    rebalance_left(f, h, parent, first, last, diff, left,
        get_nth_sibling(h, h.down[left.id], h.len[left.id] - 2))

\* handle_removal from `let (neighbor, is_right) = ...` on: parent has
\* underflowed; first/last are the ends of its remaining chain.
rebalance(f, h, parent, first, last, diff) ==
    IF next(h, parent).tag = "none"
    THEN Continue(h, Removal(parent, "Update", diff))
    ELSE IF next(h, parent).tag = "sibling"
    THEN rebalance_right(f, h, parent, first, last, diff,
                         next(h, parent).node)
    ELSE left_neighbor(f, h, parent, first, last, diff,
                       get_previous(h, parent).node)

\* The splice of handle_removal: unlink child from its chain.
unlink_child(h, child, previous) ==
    IF previous.tag = "sibling"
    THEN set_next(h, previous.node, next(h, child))
    ELSE set_down(h, previous.node, next_sibling(h, child))

\* handle_removal from `if parent.len.get() >= min_node_length()` on.
after_unlink(f, h, parent, first, last, diff) ==
    IF h.len[parent.id] >= min_node_length(f)
    THEN Continue(h, Removal(parent, "Update", diff))
    ELSE rebalance(f, h, parent, first, last, diff)

\* handle_removal from `let first: N = ...` on: h has child spliced out of
\* its chain.
unlinked(f, h, child, diff, info) ==
    after_unlink(f,
        [set_next(h, child, NoNext) EXCEPT !.len[info.parent.id] = @ - 1],
        info.parent,
        h.down[info.parent.id],
        IF info.index + 1 = h.len[info.parent.id] THEN info.previous.node
        ELSE info.last,
        diff)

\* removal_at with the walk ending at the first level that needs no more
\* than an update.
removal_at_until_update(f, h, removal, info) ==
    IF info.previous = NoNext \/ removal.kind = "Update"
    THEN [done |-> TRUE, h |-> h, removal |-> removal]
    ELSE unlinked(f,
            unlink_child([h EXCEPT !.size[info.parent.id] = @ - removal.diff],
                         removal.child, info.previous),
            removal.child, removal.diff, info)

\* handle_removal once get_previous_info has returned info.
removal_at(f, h, removal, info) ==
    IF info.previous = NoNext
    THEN [done |-> TRUE, h |-> h, removal |-> removal]
    ELSE IF removal.kind = "Update"
    THEN Continue([h EXCEPT !.size[info.parent.id] = @ - removal.diff],
                  Removal(info.parent, "Update", removal.diff))
    ELSE unlinked(f,
            unlink_child([h EXCEPT !.size[info.parent.id] = @ - removal.diff],
                         removal.child, info.previous),
            removal.child, removal.diff, info)

handle_removal(f, h, removal) ==
    removal_at(f, h, removal, get_previous_info(h, removal.child))

\* The `let root = loop {...}` of remove: head is the list of removed nodes,
\* threaded through their next-slots.
thread(h, removal, head) ==
    IF removal.kind = "Remove"
    THEN set_next(h, removal.child,
                  IF head = NoRef THEN NoNext ELSE Sibling(head))
    ELSE h

RECURSIVE removal_loop(_, _, _, _)
removal_next(f, r, removal, head) ==
    IF r.done
    THEN [h |-> thread(r.h, removal, head), root |-> r.removal.child,
          head |-> IF removal.kind = "Remove" THEN removal.child ELSE head]
    ELSE removal_loop(f, thread(r.h, removal, head), r.removal,
                      IF removal.kind = "Remove" THEN removal.child ELSE head)

removal_loop(f, h, removal, head) ==
    removal_next(f, handle_removal(f, h, removal), removal, head)

\* remove without the reduction of the tree's height.
removal_done_keeping_root(l) ==
    [h |-> l.h, old_root |-> l.root, new_root |-> l.root, removed |-> l.head]

\* remove from `let new_root = ...` on: l is what the loop left.
removal_done(l) ==
    IF l.h.len[l.root.id] <= 1
    THEN \* Root has only one child: reduce tree height by 1.
         [h |-> set_next(set_next(l.h, l.h.down[l.root.id], NoNext), l.root,
                         IF l.head = NoRef THEN NoNext ELSE Sibling(l.head)),
          old_root |-> l.root, new_root |-> l.h.down[l.root.id],
          removed |-> l.root]
    ELSE [h |-> l.h, old_root |-> l.root, new_root |-> l.root,
          removed |-> l.head]

\* remove after the first handle_removal has returned r.
removal_first(f, item, r) ==
    IF r.done
    THEN [h |-> r.h, old_root |-> item, new_root |-> NoRef, removed |-> NoRef]
    ELSE removal_done(removal_loop(f, r.h, r.removal, NoRef))

\* remove::remove(item) -> FinishedRemoval
remove(f, h, item) ==
    removal_first(f, item,
        handle_removal(f, h, Removal(item, "Remove", h.isize[item.id])))

\* destroy_node_list's loop stopped after the first node of the list.
dealloc_list_head(h, head) == IF head = NoRef THEN h ELSE dealloc(h, head)

\* destroy::destroy_node_list
RECURSIVE dealloc_list(_, _)
dealloc_list(h, head) ==
    IF head = NoRef THEN h
    ELSE dealloc_list(dealloc(h, head), next_sibling(h, head))

\* destroy_node_list without its look at the flag.
destroy_node_list_always(h, head, safe) == dealloc_list(h, head)

\* destroy_node_list when it deallocates nothing.
destroy_node_list_skipped(h, head, safe) == h

destroy_node_list(h, head, safe) == IF ~safe THEN h ELSE dealloc_list(h, head)

roots_match(a, b) ==
    (IF a.kind = "internal" THEN a ELSE NoRef)
        = (IF b.kind = "internal" THEN b ELSE NoRef)

\* ------------------------------------------------------------ tree facade
\* A list is [h, root]; operations return the list after the call plus
\* `panic` (the call unwound), `safe` (CAN_SAFELY_DESTROY afterwards) and
\* `why` (the message of the panic).
Result(h, rt, panic, safe) ==
    [h |-> h, root |-> rt, panic |-> panic, safe |-> safe, why |-> ""]

Panicked(h, rt, safe, why) ==
    [h |-> h, root |-> rt, panic |-> TRUE, safe |-> safe, why |-> why]

RECURSIVE subtree_first(_, _)
subtree_first(h, d) ==
    IF d.kind = "leaf" THEN d ELSE subtree_first(h, h.down[d.id])

RECURSIVE subtree_last(_, _)
subtree_last(h, d) ==
    IF d.kind = "leaf" THEN get_last_sibling(h, d)
    ELSE subtree_last(h, h.down[get_last_sibling(h, d).id])

first(h, rt) == IF rt = NoRef THEN NoRef ELSE subtree_first(h, rt)

last(h, rt) == IF rt = NoRef THEN NoRef ELSE subtree_last(h, rt)

\* SkipList::next
RECURSIVE next_ascend(_, _)
next_ascend(h, node) ==
    IF next(h, node).tag = "none" THEN NoRef
    ELSE IF next(h, node).tag = "sibling" THEN next(h, node).node
    ELSE next_ascend(h, next(h, node).node)

first_under(h, n) == IF n = NoRef THEN NoRef ELSE subtree_first(h, h.down[n.id])

list_next(h, item) ==
    IF next(h, item).tag = "none" THEN NoRef
    ELSE IF next(h, item).tag = "sibling" THEN next(h, item).node
    ELSE first_under(h, next_ascend(h, next(h, item).node))

\* SkipList::previous
RECURSIVE previous_ascend(_, _)
previous_step(h, pv) ==
    IF pv.tag = "none" THEN NoRef
    ELSE IF pv.tag = "sibling" THEN pv.node
    ELSE previous_ascend(h, pv.node)

previous_ascend(h, node) == previous_step(h, get_previous(h, node))

\* The descent of SkipList::previous taking the first child on every level.
last_under_first(h, n) ==
    IF n = NoRef THEN NoRef ELSE subtree_first(h, h.down[n.id])

last_under(h, n) == IF n = NoRef THEN NoRef ELSE subtree_last(h, h.down[n.id])

previous_of(h, pv) ==
    IF pv.tag = "none" THEN NoRef
    ELSE IF pv.tag = "sibling" THEN pv.node
    ELSE last_under(h, previous_ascend(h, pv.node))

list_previous(h, item) == previous_of(h, get_previous(h, item))

\* Iter: the items yielded from `leaf` on, by repeated SkipList::next.
RECURSIVE iter_from(_, _, _)
iter_from(h, leaf, fuel) ==
    IF leaf = NoRef \/ fuel = 0 THEN <<>>
    ELSE <<leaf.id>> \o iter_from(h, list_next(h, leaf), fuel - 1)

iter(h, rt) == iter_from(h, first(h, rt), NumItems + 1)

list_size(h, rt) == IF rt = NoRef THEN 0 ELSE node_size(h, rt)

\* insert_after_from without its SetUnsafeOnDrop guard.
inserted_unguarded(rt, safe, r) ==
    IF r.panic THEN Panicked(r.h, rt, safe, "item is already in a list")
    ELSE IF ~roots_match(rt, r.old_root)
    THEN Panicked(r.h, rt, safe, "pos is not from this list")
    ELSE Result(r.h, r.new_root, FALSE, safe)

\* insert_after_from once insert::insert_after has returned r.
inserted(rt, safe, r) ==
    IF r.panic THEN Panicked(r.h, rt, FALSE, "item is already in a list")
    ELSE IF ~roots_match(rt, r.old_root)
    THEN Panicked(r.h, rt, FALSE, "pos is not from this list")
    ELSE Result(r.h, r.new_root, FALSE, safe)

\* SkipList::insert_after_from
insert_after_from(f, h, rt, safe, pos, items) ==
    IF rt = NoRef THEN Panicked(h, rt, safe, "pos is not from this list")
    ELSE inserted(rt, safe, insert_after(f, h, pos, items))

\* The descent of push_front_from with `parent` set at the first internal node
\* only.
RECURSIVE push_front_descend_top(_, _, _, _)
push_front_descend_top(h, d, item, parent) ==
    IF d.kind = "leaf" THEN [h |-> h, next |-> d, parent |-> parent]
    ELSE push_front_descend_top(
            [h EXCEPT !.size[d.id] = @ + h.isize[item],
                      !.key[d.id] = node_key(h, Leaf(item))],
            h.down[d.id], item, IF parent = NoRef THEN d ELSE parent)

\* The descent of push_front_from: every node on the leftmost path gets the
\* new first item's size and key.
RECURSIVE push_front_descend(_, _, _, _)
push_front_descend(h, d, item, parent) ==
    IF d.kind = "leaf" THEN [h |-> h, next |-> d, parent |-> parent]
    ELSE push_front_descend(
            [h EXCEPT !.size[d.id] = @ + h.isize[item],
                      !.key[d.id] = node_key(h, Leaf(item))],
            h.down[d.id], item, d)

\* push_front_from after the descent d: the list and the items that its
\* call of insert_after_from gets.
push_front_rest(rt, fst, rest, d) ==
    IF d.parent # NoRef
    THEN [h |-> set_next([set_down(d.h, d.parent, Leaf(fst))
                            EXCEPT !.len[d.parent.id] = @ + 1],
                         Leaf(fst), Sibling(d.next)),
          root |-> rt, items |-> rest]
    ELSE [h |-> d.h, root |-> Leaf(fst), items |-> rest \o <<d.next.id>>]

push_front_first(h, rt, fst, rest) ==
    IF rt = NoRef THEN [h |-> h, root |-> Leaf(fst), items |-> rest]
    ELSE push_front_rest(rt, fst, rest, push_front_descend(h, rt, fst, NoRef))

insert_after_first(f, safe, fst, c) ==
    insert_after_from(f, c.h, c.root, safe, Leaf(fst), c.items)

\* SkipList::push_front_from
push_front_from(f, h, rt, safe, items) ==
    IF items = <<>> THEN Result(h, rt, FALSE, safe)
    ELSE IF h.lnext[items[1]] # NoNext
    THEN Panicked(h, rt, safe, "item is already in a list")
    ELSE insert_after_first(f, safe, items[1],
                            push_front_first(h, rt, items[1], Tail(items)))

\* SkipList::insert_after_opt_from; pos = NoRef is None.
insert_after_opt_from(f, h, rt, safe, pos, items) ==
    IF pos # NoRef THEN insert_after_from(f, h, rt, safe, pos, items)
    ELSE push_front_from(f, h, rt, safe, items)

\* insert_before_from without the step to the previous item.
insert_before_as_after(f, h, rt, safe, pos, items) ==
    insert_after_opt_from(f, h, rt, safe, pos, items)

\* SkipList::insert_before_from
insert_before_from(f, h, rt, safe, pos, items) ==
    insert_after_opt_from(f, h, rt, safe, list_previous(h, pos), items)

\* SkipList::push_back_from
push_back_from(f, h, rt, safe, items) ==
    insert_after_opt_from(f, h, rt, safe, last(h, rt), items)

\* SkipList::insert_before_opt_from; pos = NoRef is None.
insert_before_opt_from(f, h, rt, safe, pos, items) ==
    IF pos # NoRef THEN insert_before_from(f, h, rt, safe, pos, items)
    ELSE push_back_from(f, h, rt, safe, items)

\* SkipList::remove once remove::remove has returned r.
removed(rt, safe, r) ==
    IF ~roots_match(rt, r.old_root)
    THEN Panicked(r.h, rt, safe, "item is not from this list")
    ELSE Result(destroy_node_list(r.h, r.removed, safe), r.new_root,
                FALSE, safe)

\* SkipList::remove
list_remove(f, h, rt, safe, item) ==
    IF rt = NoRef THEN Panicked(h, rt, safe, "item is not from this list")
    ELSE removed(rt, safe, remove(f, h, item))

\* deconstruct_impl's loop over leaves with the last leaf left as it is.
RECURSIVE deconstruct_leaves_but_last(_, _)
deconstruct_leaves_but_last(h, node) ==
    IF next_sibling(h, node) = NoRef THEN h
    ELSE deconstruct_leaves_but_last(set_next(h, node, NoNext),
                                     next_sibling(h, node))

\* deconstruct_impl's loop over leaves: every leaf of the chain loses its
\* next-slot.
RECURSIVE deconstruct_leaves(_, _)
deconstruct_leaves(h, node) ==
    IF next_sibling(h, node) = NoRef THEN set_next(h, node, NoNext)
    ELSE deconstruct_leaves(set_next(h, node, NoNext), next_sibling(h, node))

\* destroy::deconstruct_impl: the internal nodes under `root` and its siblings
\* are strung into the list that starts at head (NoRef is None).
RECURSIVE deconstruct_impl(_, _, _)
\* `node.set_next(head.map(Next::Sibling)); head = Some(node);` and the step
\* to the next sibling, nxt.
deconstruct_link(h, node, head, nxt) ==
    IF nxt = NoRef
    THEN [h |-> set_next(h, node, IF head = NoRef THEN NoNext
                                  ELSE Sibling(head)),
          head |-> node]
    ELSE deconstruct_impl(set_next(h, node, IF head = NoRef THEN NoNext
                                            ELSE Sibling(head)),
                          nxt, node)

deconstruct_below(node, r) ==
    deconstruct_link(r.h, node, r.head, next_sibling(r.h, node))

deconstruct_impl(h, rt, head) ==
    IF rt.kind = "leaf" THEN [h |-> deconstruct_leaves(h, rt), head |-> head]
    ELSE IF h.down[rt.id] = NoRef
    THEN deconstruct_below(rt, [h |-> h, head |-> head])
    ELSE deconstruct_below(rt, deconstruct_impl(h, h.down[rt.id], head))

\* destroy::deconstruct
deconstruct(h, rt) == deconstruct_impl(h, rt, NoRef)

\* The drop's destroy_node_list started at the second node of the list.
destroy_deconstructed_rest(r, safe) ==
    IF r.head = NoRef THEN r.h
    ELSE destroy_node_list(r.h, next_sibling(r.h, r.head), safe)

destroy_deconstructed(r, safe) == destroy_node_list(r.h, r.head, safe)

\* <SkipList as Drop>::drop: the heap the list leaves behind.
list_drop(h, rt, safe) ==
    IF rt = NoRef THEN h ELSE destroy_deconstructed(deconstruct(h, rt), safe)

\* <SkipList as Drop>::drop: how many times it runs `self.alloc.drop()`.  The
\* early return for a list without a root comes before it; nothing else does.
alloc_drops(rt) == IF rt = NoRef THEN 0 ELSE 1

\* ---------------------------------------------------------------- queries
\* add_siblings of SkipList::index: ok = FALSE is Err(node).
RECURSIVE add_siblings(_, _, _)
add_siblings(h, node, index) ==
    IF next(h, node).tag = "none"
    THEN [ok |-> FALSE, node |-> node, index |-> index]
    ELSE IF next(h, node).tag = "parent"
    THEN [ok |-> TRUE, node |-> next(h, node).node, index |-> index]
    ELSE add_siblings(h, next(h, node).node,
                      index + node_size(h, next(h, node).node))

\* The `loop` of SkipList::index, a being what add_siblings returned.
RECURSIVE index_ascend(_, _)
index_ascend(h, a) ==
    IF a.ok THEN index_ascend(h, add_siblings(h, a.node, a.index))
    ELSE node_size(h, a.node) - a.index

index_from(h, a) ==
    IF a.ok THEN index_ascend(h, add_siblings(h, a.node, a.index)) ELSE 0

\* index with the accumulation starting at zero, not at the item's size.
index_inclusive(h, item) == index_from(h, add_siblings(h, item, 0))

\* SkipList::index
index(h, item) == index_from(h, add_siblings(h, item, h.isize[item.id]))

\* subtree_get with the last leaf returned whenever the sizes up to it add up
\* to the target.
RECURSIVE subtree_get_any_last(_, _, _, _)
subtree_get_any_last(h, target, node, sz) ==
    LET new_size == sz + node_size(h, node)
        nxt == next_sibling(h, node)
    IN IF node.kind = "leaf"
       THEN IF new_size <= target
            THEN IF nxt # NoRef
                 THEN subtree_get_any_last(h, target, nxt, new_size)
                 ELSE IF new_size # target THEN NoRef
                 ELSE node
            ELSE node
       ELSE IF new_size <= target
            THEN IF nxt # NoRef
                 THEN subtree_get_any_last(h, target, nxt, new_size)
                 ELSE IF new_size # target THEN NoRef
                 ELSE subtree_get_any_last(h, target, h.down[node.id], sz)
            ELSE subtree_get_any_last(h, target, h.down[node.id], sz)

\* subtree_get with the walk over the leaves stopped at the first leaf that
\* reaches the target.
RECURSIVE subtree_get_first_reached(_, _, _, _)
subtree_get_first_reached(h, target, node, sz) ==
    LET new_size == sz + node_size(h, node)
        nxt == next_sibling(h, node)
    IN IF node.kind = "leaf"
       THEN IF new_size < target
            THEN IF nxt # NoRef
                 THEN subtree_get_first_reached(h, target, nxt, new_size)
                 ELSE NoRef
            ELSE node
       ELSE IF new_size <= target
            THEN IF nxt # NoRef
                 THEN subtree_get_first_reached(h, target, nxt, new_size)
                 ELSE IF new_size # target THEN NoRef
                 ELSE subtree_get_first_reached(h, target, h.down[node.id], sz)
            ELSE subtree_get_first_reached(h, target, h.down[node.id], sz)

\* SkipList::subtree_get with cmp = |size| size.cmp(target); NoRef is None.
RECURSIVE subtree_get(_, _, _, _)
subtree_get(h, target, node, sz) ==
    LET new_size == sz + node_size(h, node)
        nxt == next_sibling(h, node)
    IN IF node.kind = "leaf"
       THEN IF new_size <= target
            THEN IF nxt # NoRef THEN subtree_get(h, target, nxt, new_size)
                 ELSE IF ~(new_size = target /\ sz = new_size) THEN NoRef
                 ELSE node
            ELSE node
       ELSE IF new_size <= target
            THEN IF nxt # NoRef THEN subtree_get(h, target, nxt, new_size)
                 ELSE IF new_size # target THEN NoRef
                 ELSE subtree_get(h, target, h.down[node.id], sz)
            ELSE subtree_get(h, target, h.down[node.id], sz)

\* SkipList::get
get(h, rt, target) ==
    IF rt = NoRef THEN NoRef ELSE subtree_get(h, target, rt, 0)

\* get_after_ascend with subtree_get started at the size past the subtree.
RECURSIVE get_after_ascend_past(_, _, _, _, _, _)
get_after_ascend_past(h, leaf, internal, sz, leaf_is_last, k) ==
    LET nx == next(h, internal)
        last_leaf == IF leaf_is_last THEN leaf
                     ELSE subtree_last(h, internal)
        new_size == sz + node_size(h, nx.node)
    IN IF nx.tag = "parent"
       THEN get_after_ascend_past(h, leaf, nx.node, sz, leaf_is_last, k)
       ELSE IF nx.tag = "none"
       THEN IF sz = k /\ h.isize[last_leaf.id] = 0 THEN last_leaf ELSE NoRef
       ELSE IF new_size > k
       THEN subtree_get(h, k, h.down[nx.node.id], new_size)
       ELSE get_after_ascend_past(h, leaf, nx.node, new_size, FALSE, k)

\* get_after_with_cmp's second loop, over the internal nodes; cmp is
\* |size| size.cmp(k) and ord is cmp(sz).
RECURSIVE get_after_ascend(_, _, _, _, _, _)
get_after_ascend(h, leaf, internal, sz, leaf_is_last, k) ==
    LET nx == next(h, internal)
        last_leaf == IF leaf_is_last THEN leaf
                     ELSE subtree_last(h, internal)
        new_size == sz + node_size(h, nx.node)
    IN IF nx.tag = "parent"
       THEN get_after_ascend(h, leaf, nx.node, sz, leaf_is_last, k)
       ELSE IF nx.tag = "none"
       THEN IF sz = k /\ h.isize[last_leaf.id] = 0 THEN last_leaf ELSE NoRef
       ELSE IF new_size > k
       THEN subtree_get(h, k, h.down[nx.node.id], sz)
       ELSE get_after_ascend(h, leaf, nx.node, new_size, FALSE, k)

\* get_after_with_cmp's first loop, over the leaves from start on.
RECURSIVE get_after_leaves(_, _, _, _)
get_after_leaves(h, leaf, sz, k) ==
    LET new_size == sz + h.isize[leaf.id]
        nx == next(h, leaf)
    IN IF new_size > k THEN leaf
       ELSE IF nx.tag = "sibling" THEN get_after_leaves(h, nx.node, new_size, k)
       ELSE IF nx.tag = "parent"
       THEN get_after_ascend(h, leaf, nx.node, new_size, TRUE, k)
       ELSE IF new_size = k /\ sz = new_size THEN leaf
       ELSE NoRef

\* SkipList::get_after; NoRef is None.
get_after(h, start, k) == get_after_leaves(h, start, 0, k)

\* SkipList::subtree_find with cmp = |item| item.cmp(k).  Returns
\* [ok, item]: Ok(item) or Err(item), item = NoRef for Err(None).  prev is
\* prev_leaf / prev_internal of the current level.  The debug_assert!s of the
\* Greater arms exist in debug builds only and are left out: this is the
\* function of a release build.
RECURSIVE subtree_find(_, _, _, _)
subtree_find(h, k, node, prev) ==
    LET nk == node_key(h, node)
        nxt == next_sibling(h, node)
    IN IF node.kind = "leaf"
       THEN IF nk = k THEN [ok |-> TRUE, item |-> node]
            ELSE IF nk > k THEN [ok |-> FALSE, item |-> prev]
            ELSE IF nxt # NoRef THEN subtree_find(h, k, nxt, node)
            ELSE [ok |-> FALSE, item |-> node]
       ELSE IF nk = k THEN [ok |-> TRUE, item |-> Leaf(nk)]
            ELSE IF nk > k
            THEN IF prev = NoRef THEN [ok |-> FALSE, item |-> NoRef]
                 ELSE subtree_find(h, k, h.down[prev.id], NoRef)
            ELSE IF nxt # NoRef THEN subtree_find(h, k, nxt, node)
            ELSE subtree_find(h, k, h.down[node.id], NoRef)

\* SkipList::find
find(h, rt, k) ==
    IF rt = NoRef THEN [ok |-> FALSE, item |-> NoRef]
    ELSE subtree_find(h, k, rt, NoRef)

\* find_after_with_cmp's second loop, over the internal nodes.
RECURSIVE find_after_ascend(_, _, _, _, _)
find_after_ascend(h, k, leaf, internal, leaf_is_last) ==
    LET nx == next(h, internal)
        nk == node_key(h, nx.node)
    IN IF nx.tag = "parent"
       THEN find_after_ascend(h, k, leaf, nx.node, leaf_is_last)
       ELSE IF nx.tag = "none"
       THEN IF leaf_is_last THEN [ok |-> FALSE, item |-> leaf]
            ELSE subtree_find(h, k, h.down[internal.id], NoRef)
       ELSE IF nk = k THEN [ok |-> TRUE, item |-> Leaf(nk)]
       ELSE IF nk > k THEN subtree_find(h, k, h.down[internal.id], NoRef)
       ELSE find_after_ascend(h, k, leaf, nx.node, FALSE)

\* find_after_with_cmp's first loop, over the leaves from start on; cmp is
\* |item| item.cmp(k).
RECURSIVE find_after_leaves(_, _, _, _)
find_after_leaves(h, k, leaf, prev) ==
    LET nx == next(h, leaf)
    IN IF leaf.id = k THEN [ok |-> TRUE, item |-> leaf]
       ELSE IF leaf.id > k THEN [ok |-> FALSE, item |-> prev]
       ELSE IF nx.tag = "sibling" THEN find_after_leaves(h, k, nx.node, leaf)
       ELSE IF nx.tag = "parent"
       THEN find_after_ascend(h, k, leaf, nx.node, TRUE)
       ELSE [ok |-> FALSE, item |-> leaf]

\* SkipList::find_after
find_after(h, start, k) == find_after_leaves(h, k, start, NoRef)

\* ------------------------------------------------- update, replace, insert
\* propagate_update_diff's `while let Some(node) = parent` loop; k = 0 is a
\* key of None.
RECURSIVE propagate_loop(_, _, _, _, _)
propagate_up(h, info, k, old_size, new_size) ==
    propagate_loop(h, info.parent, IF info.index = 0 THEN k ELSE 0, old_size,
                   new_size)

propagate_loop(h, parent, k, old_size, new_size) ==
    IF parent = NoRef THEN h
    ELSE IF ~(old_size # new_size \/ k # 0) THEN h
    ELSE propagate_up(
            [h EXCEPT !.size[parent.id] = (@ + new_size) - old_size,
                      !.key[parent.id] = IF k # 0 THEN k ELSE @],
            get_parent_info(h, parent), k, old_size, new_size)

propagate_update_diff(h, node, k, old_size, new_size) ==
    propagate_up(h, get_parent_info(h, node), k, old_size, new_size)

\* update without the call of propagate_update_diff.
update_unpropagated(h, item, new_size) == [h EXCEPT !.isize[item.id] = new_size]

\* SkipList::update, the closure setting the item's size to new_size.
list_update(h, item, new_size) ==
    propagate_update_diff([h EXCEPT !.isize[item.id] = new_size], item, 0,
                          h.isize[item.id], new_size)

\* SkipList::replace from `let (parent, previous) = ...` on.
replace_at(h, rt, safe, new, old_size, info) ==
    IF info.previous = NoNext THEN Result(h, new, FALSE, safe)
    ELSE Result(
            propagate_update_diff(
                [(IF info.previous.tag = "parent"
                  THEN set_down(h, info.previous.node, new)
                  ELSE set_next(h, info.previous.node, Sibling(new)))
                    EXCEPT !.key[info.parent.id] =
                        IF info.index = 0 THEN node_key(h, new) ELSE @],
                info.parent,
                IF info.index = 0 THEN node_key(h, new) ELSE 0,
                old_size, h.isize[new.id]),
            rt, FALSE, safe)

replace_linked(h, rt, safe, old, new) ==
    replace_at(h, rt, safe, new, h.isize[old.id], get_previous_info(h, new))

\* SkipList::replace
list_replace(h, rt, safe, old, new) ==
    IF h.lnext[new.id] # NoNext
    THEN Panicked(h, rt, safe, "new item is already in a list")
    ELSE replace_linked(set_next(set_next(h, new, next(h, old)), old, NoNext),
                        rt, safe, old, new)

\* SkipList::insert (sorted) once find has returned: err is the existing item
\* of Err(existing), NoRef for Ok(()).
insert_found(f, h, rt, safe, item, found) ==
    IF found.ok THEN [res |-> Result(h, rt, FALSE, safe), err |-> found.item]
    ELSE [res |-> insert_after_opt_from(f, h, rt, safe, found.item,
                                        <<item.id>>),
          err |-> NoRef]

list_insert(f, h, rt, safe, item) ==
    insert_found(f, h, rt, safe, item, find(h, rt, item.id))

\* ------------------------------------------------------ node identities
\* The address of an internal node is whatever the allocator returns, and
\* no operation depends on it beyond equality.  States are therefore kept up
\* to a renaming of the pool: after every call the allocated nodes are
\* numbered in depth-first order from the root, followed by the nodes that
\* are not reachable from it.
RECURSIVE dfs_nodes(_, _)
dfs_nodes(h, node) ==
    IF node.kind # "internal" THEN <<>>
    ELSE <<node.id>> \o dfs_nodes(h, h.down[node.id])
                     \o dfs_nodes(h, next_sibling(h, node))

RECURSIVE AscendingSeq(_)
AscendingSeq(S) ==
    IF S = {} THEN <<>>
    ELSE LET m == CHOOSE x \in S : \A y \in S : x <= y
         IN <<m>> \o AscendingSeq(S \ {m})

SeqRange(s) == {s[k] : k \in 1..Len(s)}

SeqInverse(s) == [n \in SeqRange(s) |-> CHOOSE k \in 1..Len(s) : s[k] = n]

renumber_ref(new, r) ==
    IF r.kind = "internal" THEN Internal(new[r.id]) ELSE r

renumber_next(new, nx) == [tag |-> nx.tag, node |-> renumber_ref(new, nx.node)]

\* old[n] is the node that becomes n, new[m] is what node m becomes.
renumber(h, rt, old, new) ==
    [h |-> [h EXCEPT
              !.lnext = [i \in Items |-> renumber_next(new, h.lnext[i])],
              !.nnext = [n \in Nodes |-> renumber_next(new, h.nnext[old[n]])],
              !.down = [n \in Nodes |-> renumber_ref(new, h.down[old[n]])],
              !.len = [n \in Nodes |-> h.len[old[n]]],
              !.size = [n \in Nodes |-> h.size[old[n]]],
              !.key = [n \in Nodes |-> h.key[old[n]]],
              !.allocated = [n \in Nodes |-> h.allocated[old[n]]]],
     root |-> renumber_ref(new, rt)]

renumber_by(h, rt, old) == renumber(h, rt, old, SeqInverse(old))

node_order(reach) == reach \o AscendingSeq(Nodes \ SeqRange(reach))

canonical(h, rt) == renumber_by(h, rt, node_order(dfs_nodes(h, rt)))

\* ------------------------------------------------------ item identities
\* An item is an opaque handle to the operations that take positions: they
\* never compare two items.  Lists are therefore kept up to a renaming of the
\* items that keeps their order: the members are 1..k in list order and the
\* items in no list are k+1..NumItems.  pi maps an old name to its new name,
\* inv a new name to its old one.
rename_ref(pi, r) == IF r.kind = "leaf" THEN Leaf(pi[r.id]) ELSE r

rename_next(pi, nx) == [tag |-> nx.tag, node |-> rename_ref(pi, nx.node)]

rename(h, rt, pi, inv) ==
    [h |-> [h EXCEPT
              !.lnext = [j \in Items |-> rename_next(pi, h.lnext[inv[j]])],
              !.isize = [j \in Items |-> h.isize[inv[j]]],
              !.nnext = [n \in Nodes |-> rename_next(pi, h.nnext[n])],
              !.down = [n \in Nodes |-> rename_ref(pi, h.down[n])],
              !.key = [n \in Nodes |->
                         IF h.key[n] = 0 THEN 0 ELSE pi[h.key[n]]]],
     root |-> rename_ref(pi, rt)]

Inverse(pi) == [j \in Items |-> CHOOSE i \in Items : pi[i] = j]

rename_items(h, rt, pi) == rename(h, rt, pi, Inverse(pi))

\* Makes room for b fresh items after position p of a list of k members:
\* the members behind p move up by b, the first b items of the pool get the
\* names p+1..p+b.
shift_up(k, p, b) ==
    [i \in Items |-> IF i <= p THEN i
                     ELSE IF i <= k THEN i + b
                     ELSE IF i <= k + b THEN (i - k) + p
                     ELSE i]

\* The member at position p of k members leaves the list: the members behind
\* it move down by one and it joins the pool.
shift_down(k, p) ==
    [i \in Items |-> IF i < p THEN i
                     ELSE IF i = p THEN k
                     ELSE IF i <= k THEN i - 1
                     ELSE i]

swap(a, b) == [i \in Items |-> IF i = a THEN b ELSE IF i = b THEN a ELSE i]

\* ---------------------------------------------------------- state machine
Range(a, b) == [j \in 1..(b - a + 1) |-> a + j - 1]

\* ref with items spliced in after position k (k = 0: at the front).
Splice(r, k, items) == SubSeq(r, 1, k) \o items \o SubSeq(r, k + 1, Len(r))

Without(r, k) == SubSeq(r, 1, k - 1) \o SubSeq(r, k + 1, Len(r))

RenameSeq(r, pi) == [j \in 1..Len(r) |-> pi[r[j]]]

Members == {ref[j] : j \in 1..Len(ref)}

\* Every item is created with size 2, so that no node's size is its len;
\* update() and replace() bring in the other sizes.
Odd(sz) == {i \in Items : sz[i] # 2}

\* The lengths of the batches that still fit.
Batches(maxlen) == 1..min2(maxlen, capacity - Len(ref))

\* The list with room made after position p for b fresh items, the renaming
\* being pi.
with_room(r, pi, p, b) ==
    [h |-> r.h, root |-> r.root, ref |-> RenameSeq(ref, pi),
     items |-> Range(p + 1, p + b)]

make_room(pi, p, b) == with_room(rename_items(Heap, root, pi), pi, p, b)

Room(p, b) == make_room(shift_up(Len(ref), p, b), p, b)

InitWith(fanouts, keys, cap) ==
    /\ fanout \in fanouts
    /\ store_keys = keys
    /\ capacity = cap
    /\ lnext = [i \in Items |-> NoNext]
    /\ isize = [i \in Items |-> 2]
    /\ nnext = [n \in Nodes |-> NoNext]
    /\ down = [n \in Nodes |-> NoRef]
    /\ len = [n \in Nodes |-> 0]
    /\ size = [n \in Nodes |-> 0]
    /\ key = [n \in Nodes |-> 0]
    /\ allocated = [n \in Nodes |-> FALSE]
    /\ root = NoRef
    /\ can_safely_destroy = TRUE
    /\ ref = <<>>
    /\ lastOp = "init"
    /\ split_iter = NoSplit
    /\ chunks = <<>>
    /\ walk = NoWalk

\* The heap becomes h.
HeapBecomes(h) ==
    /\ lnext' = h.lnext
    /\ isize' = h.isize
    /\ nnext' = h.nnext
    /\ down' = h.down
    /\ len' = h.len
    /\ size' = h.size
    /\ key' = h.key
    /\ allocated' = h.allocated

\* The list becomes c.
Becomes(c, safe, newref, op) ==
    /\ lnext' = c.h.lnext
    /\ isize' = c.h.isize
    /\ nnext' = c.h.nnext
    /\ down' = c.h.down
    /\ len' = c.h.len
    /\ size' = c.h.size
    /\ key' = c.h.key
    /\ allocated' = c.h.allocated
    /\ root' = c.root
    /\ can_safely_destroy' = safe
    /\ ref' = newref
    /\ lastOp' = op
    /\ UNCHANGED <<fanout, store_keys, capacity, split_iter, chunks, walk>>

\* The call returned normally with list `res`.
Returns(res, newref, op) ==
    /\ ~res.panic
    /\ Becomes(canonical(res.h, res.root), res.safe, newref, op)

PushFrontInto(r) ==
    Returns(push_front_from(fanout, r.h, r.root, can_safely_destroy, r.items),
            Splice(r.ref, 0, r.items), "push_front")

PushFront == \E b \in Batches(MaxBatch) : PushFrontInto(Room(0, b))

PushBackInto(r) ==
    Returns(push_back_from(fanout, r.h, r.root, can_safely_destroy, r.items),
            Splice(r.ref, Len(r.ref), r.items), "insert")

PushBack == \E b \in Batches(1) : PushBackInto(Room(Len(ref), b))

InsertAfterInto(r, p) ==
    Returns(insert_after_from(fanout, r.h, r.root, can_safely_destroy,
                              Leaf(r.ref[p]), r.items),
            Splice(r.ref, p, r.items), "insert")

InsertAfter ==
    \E p \in 1..Len(ref) : \E b \in Batches(MaxBatch) :
        InsertAfterInto(Room(p, b), p)

InsertBeforeInto(r, p) ==
    Returns(insert_before_from(fanout, r.h, r.root, can_safely_destroy,
                               Leaf(r.ref[p]), r.items),
            Splice(r.ref, p - 1, r.items), "insert")

InsertBefore ==
    \E p \in 1..Len(ref) : \E b \in Batches(1) :
        InsertBeforeInto(Room(p - 1, b), p)

\* Sorted insert of a fresh item that belongs after position p: c is what
\* SkipList::insert returned.
Inserted(r, p, c) ==
    Returns(c.res, IF c.err = NoRef THEN Splice(r.ref, p, r.items) ELSE r.ref,
            "insert")

InsertInto(r, p) ==
    Inserted(r, p, list_insert(fanout, r.h, r.root, can_safely_destroy,
                               Leaf(r.items[1])))

Insert ==
    \E p \in 0..Len(ref) : \E b \in Batches(1) : InsertInto(Room(p, b), p)

\* The item at position p of a list of k members is forgotten: it joins the
\* pool of fresh items.
forgotten(res, r, k) ==
    [res EXCEPT !.h = [r.h EXCEPT !.isize[k] = 2], !.root = r.root]

forget(res, k, p) ==
    forgotten(res, rename_items(res.h, res.root, shift_down(k, p)), k)

Remove ==
    \E p \in 1..Len(ref) :
        Returns(forget(list_remove(fanout, Heap, root, can_safely_destroy,
                                   Leaf(ref[p])),
                       Len(ref), ref[p]),
                RenameSeq(Without(ref, p), shift_down(Len(ref), ref[p])),
                "remove")

Update ==
    \E p \in 1..Len(ref) : \E s \in {0, MaxSize} :
        /\ s # isize[ref[p]]
        /\ Cardinality(Odd(isize) \cup {ref[p]}) <= MaxResized
        /\ Returns(Result(list_update(Heap, Leaf(ref[p]), s), root, FALSE,
                          can_safely_destroy),
                   ref, "update")

\* replace(old, new) with new a fresh item of size s; old is forgotten and
\* new takes over its name.
replaced(res, r, new) ==
    [res EXCEPT !.h = [r.h EXCEPT !.isize[new] = 2], !.root = r.root]

take_over(res, old, new) ==
    replaced(res, rename_items(res.h, res.root, swap(old, new)), new)

Replace ==
    \E p \in 1..Len(ref) : \E s \in {0, MaxSize} :
        /\ Len(ref) < capacity
        /\ Returns(take_over(list_replace([Heap EXCEPT !.isize[Len(ref) + 1] = s],
                                          root, can_safely_destroy,
                                          Leaf(ref[p]), Leaf(Len(ref) + 1)),
                             ref[p], Len(ref) + 1),
                   ref, "replace")

\* ---- a sorted list of comparable items: an item's name is its rank
SortedInserted(x, c) ==
    Returns(c.res,
            IF c.err = NoRef THEN AscendingSeq(Members \cup {x}) ELSE ref,
            "insert")

SortedInsert ==
    \E x \in (1..capacity) \ Members :
        SortedInserted(x, list_insert(fanout, Heap, root, can_safely_destroy,
                                      Leaf(x)))

SortedRemove ==
    \E p \in 1..Len(ref) :
        Returns(list_remove(fanout, Heap, root, can_safely_destroy,
                            Leaf(ref[p])),
                Without(ref, p), "remove")

\* replace(old, new) with new a fresh item of old's size.
ReplaceSame ==
    \E p \in 1..Len(ref) :
        /\ Len(ref) < capacity
        /\ Returns(take_over(list_replace(Heap, root, can_safely_destroy,
                                          Leaf(ref[p]), Leaf(Len(ref) + 1)),
                             ref[p], Len(ref) + 1),
                   ref, "replace")

\* The list is dropped; its items are the client's again.
dropped(h) == [h |-> [h EXCEPT !.isize = [i \in Items |-> 2]], root |-> NoRef]

Drop ==
    /\ root # NoRef
    /\ Becomes(dropped(list_drop(Heap, root, can_safely_destroy)),
               can_safely_destroy, <<>>, "drop")

\* ---- a client with two lists that breaks the contract
\* The client's second list holds items capacity+1.. in list order and always
\* the first of them; nothing but its own calls has touched it, so its root
\* field is the top of that item's ancestors.  An item that is the only one of
\* its list looks like an item in no list.
RECURSIVE top(_, _)
top(h, r) == IF get_parent(h, r) = NoRef THEN r ELSE top(h, get_parent(h, r))

OtherRoot == top(Heap, Leaf(capacity + 1))

OtherRef == iter(Heap, OtherRoot)

OtherMembers == {OtherRef[j] : j \in 1..Len(OtherRef)}

\* No call has unwound, and no breach of the contract has gone unreported.
Sound == lastOp \notin {"panic", "unreported", "drop after panic"}

\* A call on the second list returned normally.
OtherReturns(res) ==
    /\ ~res.panic
    /\ Becomes([h |-> res.h, root |-> root], res.safe, ref, "other")

OtherPushBack ==
    /\ Len(OtherRef) < OtherItems
    /\ OtherReturns(push_back_from(fanout, Heap, OtherRoot, can_safely_destroy,
                                   <<capacity + 1 + Len(OtherRef)>>))

\* The insert entry points; the ones for one item are the batches of one.
Entries == {"insert_after", "insert_after_opt", "insert_before",
            "insert_before_opt", "push_front", "push_back"}

Positions(e) ==
    IF e \in {"push_front", "push_back"} THEN {NoRef}
    ELSE {Leaf(m) : m \in Members}
         \cup (IF e \in {"insert_after_opt", "insert_before_opt"}
               THEN {NoRef} ELSE {})

EntryCall(e, pos, items) ==
    CASE e = "insert_after" ->
            insert_after_from(fanout, Heap, root, can_safely_destroy, pos,
                              items)
      [] e = "insert_after_opt" ->
            insert_after_opt_from(fanout, Heap, root, can_safely_destroy, pos,
                                  items)
      [] e = "insert_before" ->
            insert_before_from(fanout, Heap, root, can_safely_destroy, pos,
                               items)
      [] e = "insert_before_opt" ->
            insert_before_opt_from(fanout, Heap, root, can_safely_destroy,
                                   pos, items)
      [] e = "push_front" ->
            push_front_from(fanout, Heap, root, can_safely_destroy, items)
      [] e = "push_back" ->
            push_back_from(fanout, Heap, root, can_safely_destroy, items)

\* The batches of the client's items with an item whose next-slot is not none.
AttachedBatches ==
    {b \in UNION {[1..n -> (1..capacity) \cup OtherMembers] :
                    n \in 1..AttachedBatch} :
        \E j \in 1..Len(b) : lnext[b[j]] # NoNext}

\* The call ended, by a panic or not, and left the list as res.
Ends(res) ==
    Becomes([h |-> res.h, root |-> res.root], res.safe, ref,
            IF res.panic THEN "panic" ELSE "unreported")

InsertAttached ==
    \E e \in Entries : \E pos \in Positions(e) : \E b \in AttachedBatches :
        Ends(EntryCall(e, pos, b))

\* insert_after on the first list with a position in the second one.
InsertForeign ==
    \E u \in OtherMembers :
        /\ Len(ref) < capacity
        /\ Ends(insert_after_from(fanout, Heap, root, can_safely_destroy,
                                  Leaf(u), <<Len(ref) + 1>>))

\* remove on the first list of an item that is no member of it.
RemoveForeign ==
    \E u \in ((Len(ref) + 1)..capacity) \cup OtherMembers :
        Ends(list_remove(fanout, Heap, root, can_safely_destroy, Leaf(u)))

\* The list is dropped as the panic unwinds.
DropAfterPanic ==
    /\ lastOp = "panic"
    /\ root # NoRef
    /\ Becomes([h |-> list_drop(Heap, root, can_safely_destroy),
                root |-> NoRef],
               can_safely_destroy, <<>>, "drop after panic")

\* insert_after on the first list of an item that is in it already: the call
\* unwinds from inside the guard of insert_after_from.
InsertMember ==
    \E p \in 1..Len(ref) : \E m \in Members :
        /\ lnext[m] # NoNext
        /\ Ends(insert_after_from(fanout, Heap, root, can_safely_destroy,
                                  Leaf(ref[p]), <<m>>))

\* push_front on the first list of an item that is in it already: the call
\* unwinds at the assert on the first item, before anything is changed.
PushFrontMember ==
    \E m \in Members :
        /\ lnext[m] # NoNext
        /\ Ends(push_front_from(fanout, Heap, root, can_safely_destroy, <<m>>))

\* update(item, |item| item.size = 0) on a member of positive size.
ZeroSize ==
    \E p \in 1..Len(ref) :
        /\ isize[ref[p]] # 0
        /\ Returns(Result(list_update(Heap, Leaf(ref[p]), 0), root, FALSE,
                          can_safely_destroy),
                   ref, "update")

\* ---- the split planner driven on its own
\* The chain that is split: the items 1..capacity as the children of one node.
SplitSizes == [1..3 -> 0..MaxSize]

split_chain(length, s) ==
    [store_keys |-> FALSE,
     lnext |-> [i \in Items |->
                   IF i < length THEN Sibling(Leaf(i + 1))
                   ELSE IF i = length THEN Parent(Internal(1)) ELSE NoNext],
     isize |-> [i \in Items |-> IF i <= length THEN s[((i - 1) % 3) + 1]
                                ELSE 2],
     nnext |-> [n \in Nodes |-> NoNext],
     down |-> [n \in Nodes |-> IF n = 1 THEN Leaf(1) ELSE NoRef],
     len |-> [n \in Nodes |-> IF n = 1 THEN length ELSE 0],
     size |-> [n \in Nodes |-> 0],
     key |-> [n \in Nodes |-> 0],
     allocated |-> [n \in Nodes |-> n = 1]]

\* <Split as Iterator>::next is called once more and returns r.
split_yields(r) ==
    /\ split_iter' = r.it
    /\ chunks' = IF r.some THEN Append(chunks, r.setup) ELSE chunks
    /\ lastOp' = IF r.some THEN "some" ELSE "none"
    /\ UNCHANGED <<fanout, store_keys, capacity, lnext, isize, nnext, down,
                   len, size, key, allocated, root, can_safely_destroy, ref,
                   walk>>

SplitNext ==
    /\ lastOp \in {"split", "some"}
    /\ split_yields(split_next(Heap, split_iter))

\* ---- the specifications
\* Lists without keys: every entry point that takes a position, and update.
Init == InitWith(Fanouts, FALSE, NumItems)

Next ==
    \/ PushFront
    \/ PushBack
    \/ InsertAfter
    \/ InsertBefore
    \/ Remove
    \/ Update

Spec == Init /\ [][Next]_vars

\* Lists with keys that only grow.
InitIns == InitWith(Fanouts, TRUE, NumItems)

NextIns ==
    \/ PushFront
    \/ PushBack
    \/ InsertAfter
    \/ InsertBefore
    \/ Insert

SpecIns == InitIns /\ [][NextIns]_vars

\* Sorted lists with keys.
InitSorted == InitWith(Fanouts, TRUE, SortedItems)

NextSorted ==
    \/ SortedInsert
    \/ SortedRemove

SpecSorted == InitSorted /\ [][NextSorted]_vars

\* Lists with keys whose items are replaced.
InitReplace == InitWith(Fanouts, TRUE, ReplaceItems)

NextReplace ==
    \/ PushFront
    \/ InsertAfter
    \/ Replace

SpecReplace == InitReplace /\ [][NextReplace]_vars

\* Lists with keys whose items are removed and replaced, and that are dropped.
InitDrop == InitWith(Fanouts, TRUE, DropItems)

NextDrop ==
    \/ PushFront
    \/ InsertAfter
    \/ Remove
    \/ ReplaceSame
    \/ Drop

SpecDrop == InitDrop /\ [][NextDrop]_vars

\* Two lists without keys; a breach of the contract ends the run, but for the
\* drop of the list.
InitMisuse == InitWith(Fanouts, FALSE, MisuseItems)

NextMisuse ==
    \/ Sound /\ PushBack
    \/ Sound /\ InsertAfter
    \/ Sound /\ Remove
    \/ Sound /\ OtherPushBack
    \/ Sound /\ InsertAttached
    \/ Sound /\ InsertForeign
    \/ Sound /\ RemoveForeign
    \/ DropAfterPanic

SpecMisuse == InitMisuse /\ [][NextMisuse]_vars

\* Two lists without keys on one thread; the client catches the panic of a
\* call on the first list, leaves that list alone and goes on with the second.
InitRecover == InitWith(Fanouts, FALSE, MisuseItems)

NextRecover ==
    \/ can_safely_destroy /\ PushBack
    \/ can_safely_destroy /\ InsertAfter
    \/ can_safely_destroy /\ InsertMember
    \/ can_safely_destroy /\ PushFrontMember
    \/ OtherPushBack

SpecRecover == InitRecover /\ [][NextRecover]_vars

\* The split planner: every fanout, every chain of up to MaxChain nodes with
\* sizes that repeat with period three; the state after split(node, len).
InitSplit ==
    /\ fanout \in 1..MaxFanout
    /\ store_keys = FALSE
    /\ capacity \in 1..MaxChain
    /\ \E s \in SplitSizes :
          /\ lnext = split_chain(capacity, s).lnext
          /\ isize = split_chain(capacity, s).isize
          /\ nnext = split_chain(capacity, s).nnext
          /\ down = split_chain(capacity, s).down
          /\ len = split_chain(capacity, s).len
          /\ size = split_chain(capacity, s).size
          /\ key = split_chain(capacity, s).key
          /\ allocated = split_chain(capacity, s).allocated
    /\ root = Internal(1)
    /\ can_safely_destroy = TRUE
    /\ ref = [j \in 1..capacity |-> j]
    /\ lastOp = "split"
    /\ split_iter = split(fanout, Leaf(1), capacity)
    /\ chunks = <<>>
    /\ walk = NoWalk

NextSplit == SplitNext

SpecSplit == InitSplit /\ [][NextSplit]_vars

\* Lists without keys in which any number of items has size zero.
InitZero == InitWith(Fanouts, FALSE, ZeroItems)

NextZero ==
    \/ PushBack
    \/ InsertAfter
    \/ Remove
    \/ ZeroSize

SpecZero == InitZero /\ [][NextZero]_vars

\* ------------------------------------------------------------ properties
\* The internal nodes of the tree under the root.
TreeNodes == SeqRange(dfs_nodes(Heap, root))

\* The chain of siblings from r on.
RECURSIVE chain(_, _)
chain(h, r) == IF r = NoRef THEN <<>> ELSE <<r>> \o chain(h, next_sibling(h, r))

children(h, n) == chain(h, h.down[n])

RECURSIVE SumNodeSizes(_, _, _)
SumNodeSizes(h, rs, k) ==
    IF k > Len(rs) THEN 0 ELSE node_size(h, rs[k]) + SumNodeSizes(h, rs, k + 1)

RECURSIVE SumItemSizes(_, _, _)
SumItemSizes(h, is, k) ==
    IF k = 0 THEN 0 ELSE h.isize[is[k]] + SumItemSizes(h, is, k - 1)

\* The number of levels under r, the leaves included.
RECURSIVE levels(_, _)
levels(h, r) ==
    IF r = NoRef THEN 0
    ELSE IF r.kind = "leaf" THEN 1
    ELSE 1 + levels(h, h.down[r.id])

Depth == levels(Heap, root)

FanoutBounds(h, rt, f) ==
    \A n \in SeqRange(dfs_nodes(h, rt)) :
        Internal(n) # rt =>
            /\ min_node_length(f) <= h.len[n]
            /\ h.len[n] <= max_node_length(f)

Aggregates(h, rt) ==
    \A n \in SeqRange(dfs_nodes(h, rt)) :
        /\ h.len[n] = Len(children(h, n))
        /\ h.size[n] = SumNodeSizes(h, children(h, n), 1)

KeySummary(h, rt) ==
    \A n \in SeqRange(dfs_nodes(h, rt)) :
        h.key[n] = node_key(h, subtree_first(h, Internal(n)))

\* C1: after any sequence of inserts and removes, for every fanout, every
\* non-root internal node has min_node_length() <= len <= max_node_length().
C1_FanoutBounds == FanoutBounds(Heap, root, fanout)

\* C2: after any sequence of inserts and removes, iter() yields the reference
\* vector that went through the same splices and removals.
C2_IterMatchesReference == iter(Heap, root) = ref

C2_Witness ==
    /\ lastOp = "remove"
    /\ Depth = 4
    /\ Len(ref) >= 8
    /\ iter(Heap, root) = ref

\* C3: after any sequence of inserts, removes and updates, every internal
\* node's len is the number of its children and its size the sum of their
\* sizes, and size() is the sum of the sizes of the items in the list.
C3_Aggregates ==
    /\ Aggregates(Heap, root)
    /\ list_size(Heap, root) = SumItemSizes(Heap, ref, Len(ref))

C3_Witness ==
    /\ lastOp = "update"
    /\ Depth = 4
    /\ \E i \in Members : isize[i] = 0
    /\ list_size(Heap, root) = 2 * (Len(ref) - 1)

\* C4: with keys stored, after every remove every internal node's key is the
\* key of its leftmost leaf descendant.
C4_KeysAfterRemove == lastOp = "remove" => KeySummary(Heap, root)

\* C5: with keys stored, after any sequence of inserts (push_front,
\* push_back, insert_after, insert_before, sorted insert; single or batch)
\* every internal node's key is the key of its leftmost leaf descendant.
C5_KeysAfterInserts == KeySummary(Heap, root)

C5_Witness ==
    /\ lastOp = "push_front"
    /\ Depth = 4
    /\ key[root.id] = 1
    /\ \E n \in TreeNodes : key[n] > 1

\* The members ordered before k, and the greatest of a set of items.
Below(k) == {m \in Members : m < k}

Greatest(S) == CHOOSE x \in S : \A y \in S : y <= x

\* What find(k) owes a sorted list: the member equal to k, or else the
\* greatest member ordered before k (Err(None) when there is none).
FindOwed(k) ==
    IF k \in Members THEN [ok |-> TRUE, item |-> Leaf(k)]
    ELSE [ok |-> FALSE,
          item |-> IF Below(k) = {} THEN NoRef ELSE Leaf(Greatest(Below(k)))]

\* C6: in a sorted list with keys, after any sequence of sorted inserts and
\* removes, find(k) is Ok(item) exactly when an item equal to k is a member
\* (and that member is returned), and otherwise Err of the greatest member
\* ordered before k, Err(None) when there is none.
C6_FindCorrect ==
    \A k \in 1..capacity : find(Heap, root, k) = FindOwed(k)

\* What insert(x) owes a sorted list, c being what it returned.
InsertOwed(x, c) ==
    IF x \in Members
    THEN /\ c.err = Leaf(x)
         /\ c.res.h = Heap
         /\ c.res.root = root
    ELSE /\ c.err = NoRef
         /\ ~c.res.panic
         /\ iter(c.res.h, c.res.root) = AscendingSeq(Members \cup {x})

\* C7: sorted insert(x) returns Err(existing) and leaves the list unchanged
\* exactly when an item equal to x is a member; otherwise it returns Ok(())
\* and x becomes a member where iter() stays sorted.  In particular an item
\* that was removed can be inserted again.
C7_SortedInsert ==
    \A x \in 1..capacity :
        InsertOwed(x, list_insert(fanout, Heap, root, can_safely_destroy,
                                  Leaf(x)))

\* C8: for every leaf L of the list, index(L) is the sum of the sizes of the
\* items before L in iteration order, and get(index(L)) is L when L's size is
\* positive.
C8_IndexGet ==
    \A p \in 1..Len(ref) :
        /\ iter(Heap, root)[p] = ref[p]
        /\ index(Heap, Leaf(ref[p])) = SumItemSizes(Heap, ref, p - 1)
        /\ isize[ref[p]] > 0 =>
               get(Heap, root, index(Heap, Leaf(ref[p]))) = Leaf(ref[p])

C8_Witness ==
    /\ lastOp = "update"
    /\ Depth = 4
    /\ \E p \in 2..(Len(ref) - 1) :
           /\ isize[ref[p]] = 0
           /\ index(Heap, Leaf(ref[p])) = 2 * (p - 1)
           /\ index(Heap, Leaf(ref[p + 1])) = 2 * (p - 1)
           /\ get(Heap, root, 2 * (p - 1)) = Leaf(ref[p + 1])

\* The shape of the tree under r, written in preorder: an internal node is
\* the negative of its len, its children's shapes and a closing 0; a leaf is
\* its item.  Node identities do not appear in it.
RECURSIVE shape(_, _)
RECURSIVE shape_list(_, _)
shape(h, r) ==
    IF r = NoRef THEN <<>>
    ELSE IF r.kind = "leaf" THEN <<r.id>>
    ELSE <<0 - h.len[r.id]>> \o shape_list(h, h.down[r.id]) \o <<0>>

shape_list(h, r) ==
    IF r = NoRef THEN <<>>
    ELSE shape(h, r) \o shape_list(h, next_sibling(h, r))

\* remove(x) on the list c that insert_after(pos, x) returned.
RemovedAgain(c, x) ==
    IF c.panic THEN c
    ELSE list_remove(fanout, c.h, c.root, c.safe, Leaf(x))

\* insert_after(pos, x) followed by remove(x), pos the member at position p
\* and x an item that is in no list.
RoundTrip(p) ==
    RemovedAgain(insert_after_from(fanout, Heap, root, can_safely_destroy,
                                   Leaf(ref[p]), <<Len(ref) + 1>>),
                 Len(ref) + 1)

ShapeRestored(c) == ~c.panic /\ shape(c.h, c.root) = shape(Heap, root)

ItemsRestored(c) == ~c.panic /\ iter(c.h, c.root) = ref

\* pos is the only item of the list, or its parent can take one more child.
HasRoom(p) ==
    \/ get_parent(Heap, Leaf(ref[p])) = NoRef
    \/ len[get_parent(Heap, Leaf(ref[p])).id] < max_node_length(fanout)

C10_ReplaceCorrect ==
    lastOp = "replace" =>
        /\ iter(Heap, root) = ref
        /\ \A i \in Items \ Members : lnext[i] = NoNext
        /\ Aggregates(Heap, root)
        /\ KeySummary(Heap, root)

\* The depths of the leaves found under the chain of siblings from r on, r
\* being at depth d.
RECURSIVE leaf_depths(_, _, _)
leaf_depths(h, r, d) ==
    IF r = NoRef THEN {}
    ELSE (IF r.kind = "leaf" THEN {d} ELSE leaf_depths(h, h.down[r.id], d + 1))
         \cup leaf_depths(h, next_sibling(h, r), d)

\* The number of nodes on the path from r up to the node without a parent.
RECURSIVE height_above(_, _)
height_above(h, r) ==
    IF get_parent(h, r) = NoRef THEN 1
    ELSE 1 + height_above(h, get_parent(h, r))

\* The depths at which the tree under rt holds the items of r: counted down
\* from the root, and up from every item.
ItemDepths(h, rt, r) ==
    leaf_depths(h, rt, 1) \cup {height_above(h, Leaf(r[j])) : j \in 1..Len(r)}

\* C11: after every insert and remove all leaves sit at the same depth.
C11_UniformDepth == Cardinality(ItemDepths(Heap, root, ref)) <= 1

\* remove(item at position p) takes a level off the tree.
Collapses(c, p) ==
    /\ ~c.panic
    /\ levels(c.h, c.root) = Depth - 1
    /\ Cardinality(ItemDepths(c.h, c.root, Without(ref, p))) = 1

C11_Witness ==
    /\ lastOp = "remove"
    /\ Depth = 4
    /\ ItemDepths(Heap, root, ref) = {4}
    /\ \E p \in 1..Len(ref) :
           Collapses(list_remove(fanout, Heap, root, can_safely_destroy,
                                 Leaf(ref[p])), p)

\* The children of n are len[n] nodes linked by sibling next-slots, the last
\* one pointing back to n.
ChainOf(h, n) ==
    LET cs == children(h, n)
    IN /\ Len(cs) = h.len[n]
       /\ Len(cs) >= 1
       /\ \A j \in 1..(Len(cs) - 1) : next(h, cs[j]) = Sibling(cs[j + 1])
       /\ next(h, cs[Len(cs)]) = Parent(Internal(n))

\* C12: every internal node's next-slots lead through exactly len children,
\* all but the last pointing to the next child and the last one to the node
\* itself; the root's next-slot is none.
C12_ChildChains ==
    /\ root # NoRef => next(Heap, root) = NoNext
    /\ \A n \in TreeNodes : ChainOf(Heap, n)

C12_Witness ==
    /\ lastOp = "remove"
    /\ Depth = 4
    /\ next(Heap, root) = NoNext
    /\ \E n \in TreeNodes :
           /\ len[n] = max_node_length(fanout)
           /\ ChainOf(Heap, n)
           /\ next(Heap, Internal(n)).tag = "parent"

NoneAllocated == \A n \in Nodes : ~allocated[n]

\* C13: the root is none iff the list is empty, the only item itself with no
\* internal node allocated iff the list has one item, and an internal node
\* with at least two children iff the list has two or more items.
C13_RootMatchesCount ==
    /\ root = NoRef <=> Len(ref) = 0
    /\ (root.kind = "leaf" /\ NoneAllocated) <=> Len(ref) = 1
    /\ (root.kind = "internal" /\ len[root.id] >= 2) <=> Len(ref) >= 2
    /\ Len(ref) = 0 => NoneAllocated
    /\ Len(ref) = 1 => root = Leaf(ref[1])

\* A remove has left one item: the internal root it found had two children.
C13_Witness ==
    /\ lastOp = "remove"
    /\ Len(ref) = 1
    /\ root = Leaf(ref[1])
    /\ NoneAllocated

\* The answer the reference vector gives for get(i).
Covering(i) ==
    {p \in 1..Len(ref) :
        /\ isize[ref[p]] > 0
        /\ SumItemSizes(Heap, ref, p - 1) <= i
        /\ i < SumItemSizes(Heap, ref, p - 1) + isize[ref[p]]}

GetOwed(i) ==
    IF i < SumItemSizes(Heap, ref, Len(ref))
    THEN IF Cardinality(Covering(i)) = 1
         THEN Leaf(ref[CHOOSE p \in Covering(i) : TRUE])
         ELSE [kind |-> "ambiguous", id |-> 0]
    ELSE IF /\ i = SumItemSizes(Heap, ref, Len(ref))
            /\ Len(ref) > 0
            /\ isize[ref[Len(ref)]] = 0
         THEN Leaf(ref[Len(ref)])
         ELSE NoRef

FindAfterOwed(start, k) ==
    IF \/ k \in Members /\ k >= start
       \/ k \notin Members /\ k > start
    THEN find(Heap, root, k)
    ELSE [ok |-> FALSE, item |-> NoRef]

\* C16: in a sorted list with keys, find_after(start, k) is what find(k)
\* returns when k is a member at or after start or is absent and ordered
\* after start, and Err(None) otherwise.
C16_FindAfterIsFind ==
    \A start \in Members :
        \A k \in 1..(capacity + 1) :
            find_after(Heap, Leaf(start), k) = FindAfterOwed(start, k)

Detached(h, S) == \A i \in S : h.lnext[i] = NoNext

\* C17: the next-slot of an item that is a member of no list is none: after
\* remove(item), for old after replace(old, new), and for every member once
\* the list is dropped.
C17_DetachedItemsHaveNoNext ==
    /\ Detached(Heap, Items \ Members)
    /\ Detached(list_drop(Heap, root, can_safely_destroy), Items)

\* A three-level list right after a replace: old has no next-slot, and the
\* drop of the list takes the next-slot of every member.
C17_Witness ==
    /\ lastOp = "replace"
    /\ Depth = 3
    /\ \A i \in Members : lnext[i] # NoNext
    /\ lnext[Len(ref) + 1] = NoNext
    /\ Detached(list_drop(Heap, root, can_safely_destroy), Items)

\* C18: every insert entry point, called with a member of the list as its
\* position where it takes one, panics with "item is already in a list" when
\* an item of the batch has a next-slot that is not none.
C18_AttachedItemPanics ==
    Sound =>
        \A b \in AttachedBatches : \A e \in Entries : \A pos \in Positions(e) :
            /\ EntryCall(e, pos, b).panic
            /\ EntryCall(e, pos, b).why = "item is already in a list"

\* insert_after_from has linked a fresh item after a member of a two-level
\* list and unwound at the attached item that followed it.
C18_Witness ==
    /\ lastOp = "panic"
    /\ Depth >= 3
    /\ Len(ref) < capacity
    /\ ~can_safely_destroy
    /\ lnext[Len(ref) + 1] = NoNext
    /\ \E p \in 1..Len(ref) : lnext[ref[p]] = Sibling(Leaf(Len(ref) + 1))

\* C19: insert_after on a list with a position that is a member of another
\* list, and remove on a list of an item that is no member of it, panic,
\* whatever the shapes of the two lists.
C19_ForeignItemsPanic ==
    Sound =>
        /\ \A u \in OtherMembers : \A x \in (Len(ref) + 1)..capacity :
               insert_after_from(fanout, Heap, root, can_safely_destroy,
                                 Leaf(u), <<x>>).panic
        /\ \A u \in ((Len(ref) + 1)..capacity) \cup OtherMembers :
               list_remove(fanout, Heap, root, can_safely_destroy,
                           Leaf(u)).panic

\* The calls of the insert entry points that reach insert_after_from with a
\* root, where the SetUnsafeOnDrop guard is made.
WindowOpens(e, pos, items) ==
    LET after == root # NoRef
        front == items # <<>> /\ lnext[items[1]] = NoNext
        after_opt(q) == IF q # NoRef THEN after ELSE front
        back == after_opt(last(Heap, root))
        before(q) == after_opt(list_previous(Heap, q))
    IN CASE e = "insert_after" -> after
         [] e = "insert_after_opt" -> after_opt(pos)
         [] e = "insert_before" -> before(pos)
         [] e = "insert_before_opt" -> IF pos # NoRef THEN before(pos) ELSE back
         [] e = "push_front" -> front
         [] e = "push_back" -> back

\* The drop of the list that res is deallocates no internal node.
Leaks(res) ==
    /\ ~res.safe
    /\ list_drop(res.h, res.root, res.safe).allocated = res.h.allocated

\* C20: when an insert panics after the SetUnsafeOnDrop guard is made, because
\* an item of the batch is attached or the position is not from this list,
\* the drop of the list finds the flag unsafe and deallocates no internal
\* node.
C20_PanicLeaksNodes ==
    Sound =>
        /\ \A b \in AttachedBatches : \A e \in Entries :
               \A pos \in Positions(e) :
                   (WindowOpens(e, pos, b) /\ EntryCall(e, pos, b).panic)
                       => Leaks(EntryCall(e, pos, b))
        /\ \A u \in OtherMembers : \A x \in (Len(ref) + 1)..capacity :
               (WindowOpens("insert_after", Leaf(u), <<x>>)
                    /\ EntryCall("insert_after", Leaf(u), <<x>>).panic)
                   => Leaks(EntryCall("insert_after", Leaf(u), <<x>>))

\* A list has been dropped after a panic of an insert: its internal nodes are
\* still allocated, strung into the node list that was to be destroyed.
C20_Witness ==
    /\ lastOp = "drop after panic"
    /\ ~can_safely_destroy
    /\ root = NoRef
    /\ \E n, m \in Nodes :
           /\ allocated[n] /\ allocated[m]
           /\ nnext[n] = Sibling(Internal(m))
           /\ nnext[m] = NoNext

\* ---- C21
\* C21: whenever an insert returns normally the destroy-safety flag is clear
\* afterwards, also when an earlier insert on the same thread has panicked.
C21_InsertLeavesFlagClear ==
    lastOp \in {"insert", "push_front", "other"} => can_safely_destroy

\* ---- C22
\* C22: when remove(item) panics after it has started mutating, because the
\* item is not from this list, the destroy-safety flag is left unsafe and the
\* drop of the list deallocates no internal node.
C22_RemovePanicLeaksNodes ==
    Sound =>
        \A u \in ((Len(ref) + 1)..capacity) \cup OtherMembers :
            LET call == list_remove(fanout, Heap, root, can_safely_destroy,
                                    Leaf(u))
            IN (call.panic /\ call.h # Heap) => Leaks(call)

\* ---- C23
\* The node list that the drop of the list hands to destroy_node_list.
DropNodeList == chain(deconstruct(Heap, root).h, deconstruct(Heap, root).head)

NoRepeats(s) == \A i, j \in 1..Len(s) : s[i] = s[j] => i = j

\* C23: when a tree is dropped and no panic has occurred, every internal node
\* that is allocated is deallocated exactly once, no item is modified but for
\* its next-slot, which becomes none, and no internal node remains allocated.
C23_DropFreesNodesOnly ==
    can_safely_destroy =>
        /\ root = NoRef => NoneAllocated
        /\ root # NoRef =>
              /\ NoRepeats(DropNodeList)
              /\ {DropNodeList[j].id : j \in 1..Len(DropNodeList)}
                     = {n \in Nodes : allocated[n]}
        /\ \A n \in Nodes :
              ~list_drop(Heap, root, can_safely_destroy).allocated[n]
        /\ list_drop(Heap, root, can_safely_destroy).isize = isize
        /\ \A i \in Items :
              list_drop(Heap, root, can_safely_destroy).lnext[i]
                  = IF i \in Members THEN NoNext ELSE lnext[i]

\* A three-level list about to be dropped: its drop deallocates the root and
\* the nodes under it and takes the next-slot of every member.
C23_Witness ==
    /\ can_safely_destroy
    /\ Depth = 3
    /\ Len(DropNodeList) >= 3
    /\ \A i \in Members : lnext[i] # NoNext
    /\ \A n \in Nodes :
          ~list_drop(Heap, root, can_safely_destroy).allocated[n]

\* ---- C24
\* C24: in every drop of a tree, a drop with the destroy-safety flag unsafe
\* included, the allocator is released only when every internal node of the
\* tree has been deallocated.  (A list that an unreported breach of the
\* contract has mixed with another one is left out.)
C24_AllocatorOutlivesNodes ==
    (lastOp # "unreported" /\ alloc_drops(root) > 0) =>
        \A n \in TreeNodes :
            ~list_drop(Heap, root, can_safely_destroy).allocated[n]

\* ---- C25
\* C25: every drop of a tree releases the allocator exactly once, whatever the
\* state of the tree, an empty tree included.
C25_DropReleasesAllocatorOnce == alloc_drops(root) = 1

\* ---- C26
\* The halves of a, rounded up and down, by what they are.
CeilHalf(a) == CHOOSE m \in 0..a : 2 * m >= a /\ 2 * (m - 1) < a

FloorHalf(a) == CHOOSE m \in 0..a : 2 * m <= a /\ 2 * (m + 1) > a

\* The greater of 3 and f, by what it is.
AtLeastThree(f) == CHOOSE m \in {3, f} : m >= 3 /\ m >= f

\* C26: for every configured fanout f >= 1, max_node_length() = max(3, f)
\* and min_node_length() = ceil((max_node_length() + 1) / 2).
C26_NodeLengths ==
    /\ max_node_length(fanout) = AtLeastThree(fanout)
    /\ min_node_length(fanout) = CeilHalf(max_node_length(fanout) + 1)

\* C26 with the half rounded down, as the integer division of the code does:
\* min_node_length() = floor((max_node_length() + 1) / 2).
C26_NodeLengthsRoundedDown ==
    /\ max_node_length(fanout) = AtLeastThree(fanout)
    /\ min_node_length(fanout) = FloorHalf(max_node_length(fanout) + 1)

\* A chain of five nodes split for fanout 4: the second chunk has the minimum
\* length, 2, which is below the half of 5 rounded up.
C26_Witness ==
    /\ fanout = 4
    /\ capacity = 5
    /\ lastOp = "none"
    /\ Len(chunks) = 2
    /\ chunks[2].len = min_node_length(fanout)
    /\ chunks[2].len < CeilHalf(max_node_length(fanout) + 1)

\* ---- C27
\* The number of nodes in the first j chunks.
RECURSIVE LensThrough(_, _)
LensThrough(cs, j) == IF j = 0 THEN 0 ELSE cs[j].len + LensThrough(cs, j - 1)

\* The sum of the sizes of the items a..b.
RECURSIVE RangeSize(_, _)
RangeSize(a, b) == IF a > b THEN 0 ELSE isize[a] + RangeSize(a + 1, b)

\* The chunks are consecutive runs of the chain, in chain order, that cover it
\* once, and each reports the sum of the sizes of its members.
ChunksCover(cs) ==
    /\ LensThrough(cs, Len(cs)) = capacity
    /\ \A j \in 1..Len(cs) :
          /\ cs[j].len >= 1
          /\ cs[j].start = Leaf(LensThrough(cs, j - 1) + 1)
          /\ cs[j].end = Leaf(LensThrough(cs, j))
          /\ cs[j].size = RangeSize(LensThrough(cs, j - 1) + 1,
                                    LensThrough(cs, j))

ChunksInBounds(cs) ==
    \A j \in 1..Len(cs) :
        /\ cs[j].len >= min_node_length(fanout)
        /\ cs[j].len <= max_node_length(fanout)

\* C27: for every fanout and every chain longer than max_node_length(), the
\* planner emits consecutive chunks in chain order that cover the chain once,
\* each of a length in [min_node_length(), max_node_length()] and each
\* reporting the sum of the sizes of its members.
C27_SplitChunks ==
    (lastOp = "none" /\ capacity > max_node_length(fanout)) =>
        ChunksCover(chunks) /\ ChunksInBounds(chunks)

\* ---- C28
\* The quotient of a by b, rounded down and up, by what it is.
FloorDiv(a, b) == CHOOSE q \in 0..a : q * b <= a /\ (q + 1) * b > a

CeilDiv(a, b) == CHOOSE q \in 0..a : q * b >= a /\ (q - 1) * b < a

\* The planner has emitted n chunks, each of floor(L / n) nodes and the first
\* L mod n of them of one more.
EvenChunks(n) ==
    /\ Len(chunks) = n
    /\ \A j \in 1..Len(chunks) :
          chunks[j].len
              = FloorDiv(capacity, n)
                + (IF j <= capacity - n * FloorDiv(capacity, n) THEN 1 ELSE 0)

\* C28: for a chain of length L the planner emits exactly
\* num_chunks = max(1, ceil((L - 1) / min_node_length())) chunks, each of
\* floor(L / num_chunks) nodes, the first L mod num_chunks of one more.
C28_ChunkCount ==
    lastOp = "none" =>
        EvenChunks(IF capacity = 1 THEN 1
                   ELSE CeilDiv(capacity - 1, min_node_length(fanout)))

\* C28 with the quotient rounded down, as the integer division of the code
\* does: num_chunks = max(1, floor((L - 1) / min_node_length())).
C28_ChunkCountRoundedDown ==
    lastOp = "none" =>
        EvenChunks(IF FloorDiv(capacity - 1, min_node_length(fanout)) = 0
                   THEN 1
                   ELSE FloorDiv(capacity - 1, min_node_length(fanout)))

\* Fanout 6 and a chain of nine nodes: 8 / 3 rounds down to two chunks, of
\* five and four nodes; rounded up it would be three.
C28_Witness ==
    /\ fanout = 6
    /\ capacity = 9
    /\ lastOp = "none"
    /\ Len(chunks) = 2
    /\ chunks[1].len = 5
    /\ chunks[2].len = 4
    /\ CeilDiv(capacity - 1, min_node_length(fanout)) = 3

\* ---- C29
\* C29: a new tree, and a tree from which every item has been removed, is
\* empty: size() is zero, first() and last() are none, iter() yields nothing,
\* get(0) is none and no internal node remains allocated.
C29_EmptyList ==
    ref = <<>> =>
        /\ list_size(Heap, root) = 0
        /\ first(Heap, root) = NoRef
        /\ last(Heap, root) = NoRef
        /\ iter(Heap, root) = <<>>
        /\ get(Heap, root, 0) = NoRef
        /\ NoneAllocated

\* The last item of a list has just been removed.
C29_Witness ==
    /\ lastOp = "remove"
    /\ ref = <<>>
    /\ root = NoRef
    /\ \A i \in Items : lnext[i] = NoNext

\* ---- C30
\* The list has two or more items and all of them have size zero.
AllZero == Len(ref) >= 2 /\ \A p \in 1..Len(ref) : isize[ref[p]] = 0

SeqWithout(s, x) == SelectSeq(s, LAMBDA y : y # x)

\* The neighbor that handle_removal picks for the node p: the right sibling if
\* there is one, the left sibling otherwise.
Neighbor(h, p) ==
    IF next(h, p).tag = "sibling" THEN next(h, p).node
    ELSE get_previous(h, p).node

\* The children of the survivor of a merge, owed by the heap h before the
\* level was handled: the children of p but `child`, and the neighbor's, in
\* their order.
CombinedChildren(h, p, child) ==
    IF next(h, p).tag = "sibling"
    THEN SeqWithout(children(h, p.id), child)
             \o children(h, Neighbor(h, p).id)
    ELSE children(h, Neighbor(h, p).id)
             \o SeqWithout(children(h, p.id), child)

\* The survivor n of a merge holds the children cs in the heap h.
SurvivorHolds(h, n, cs) ==
    /\ children(h, n.id) = cs
    /\ h.len[n.id] = Len(cs)
    /\ h.size[n.id] = SumNodeSizes(h, cs, 1)

SurvivorKey(h, n) == h.key[n.id] = node_key(h, subtree_first(h, n))

\* The merges of the upward walk of remove from `removal` on, r being what
\* handle_removal returns for it: one record for every level where the node
\* p was merged into its neighbor.
RECURSIVE MergesAlong(_, _, _, _)
MergesAlong(f, h, removal, r) ==
    IF r.done THEN <<>>
    ELSE (IF removal.kind = "Remove" /\ r.removal.kind = "Remove"
          THEN <<[before |-> h, after |-> r.h, p |-> r.removal.child,
                  child |-> removal.child]>>
          ELSE <<>>)
         \o MergesAlong(f, r.h, r.removal, handle_removal(f, r.h, r.removal))

\* The merges that remove(x) makes in the tree as it is.
Merges(x) ==
    MergesAlong(fanout, Heap, Removal(Leaf(x), "Remove", isize[x]),
                handle_removal(fanout, Heap,
                               Removal(Leaf(x), "Remove", isize[x])))

MergeKeepsChildren(m) ==
    /\ SurvivorHolds(m.after, Neighbor(m.before, m.p),
                     CombinedChildren(m.before, m.p, m.child))
    /\ m.after.down[m.p.id] = NoRef

MergeKeepsKey(m) == SurvivorKey(m.after, Neighbor(m.before, m.p))

\* The nodes that remove(item) queues for deallocation are not reachable from
\* the root it returns.
QueuedUnreachable(r) ==
    \A j \in 1..Len(chain(r.h, r.removed)) :
        chain(r.h, r.removed)[j].id \notin
            (IF r.new_root = NoRef THEN {}
             ELSE SeqRange(dfs_nodes(r.h, r.new_root)))

\* C31: when remove merges an underflowing node with its neighbor, the
\* surviving node's len, size and key reflect the combined children (the key
\* is that of the leftmost leaf under it), the combined children are in their
\* original order, and the node queued for deallocation is the emptied one,
\* which the root no longer reaches.  (Stated for the trees whose keys are
\* all as they should be before the remove.)
C31_MergeSurvivor ==
    KeySummary(Heap, root) => \A x \in Members :
        /\ \A j \in 1..Len(Merges(x)) :
               MergeKeepsChildren(Merges(x)[j]) /\ MergeKeepsKey(Merges(x)[j])
        /\ QueuedUnreachable(remove(fanout, Heap, Leaf(x)))

\* ---- C32
AllocatedNodes(h) == {n \in Nodes : h.allocated[n]}

ReachableNodes(h, rt) ==
    IF rt = NoRef THEN {} ELSE SeqRange(dfs_nodes(h, rt))

\* remove::remove(item) returned r for the heap h: the walk has deallocated
\* nothing, and the list of removed nodes holds each node that the new root
\* does not reach any more once, and no other node.
QueuesDetached(h, r) ==
    /\ r.h.allocated = h.allocated
    /\ NoRepeats(chain(r.h, r.removed))
    /\ {chain(r.h, r.removed)[j].id : j \in 1..Len(chain(r.h, r.removed))}
           = AllocatedNodes(h) \ ReachableNodes(r.h, r.new_root)

\* SkipList::remove returned res: the nodes still allocated are the ones its
\* root reaches.
FreesDetached(res) ==
    /\ ~res.panic
    /\ AllocatedNodes(res.h) = ReachableNodes(res.h, res.root)

\* An insert entry point returned res: every node that was allocated still
\* is, and the nodes allocated are the ones the root reaches.
KeepsNodes(res) ==
    /\ ~res.panic
    /\ AllocatedNodes(Heap) \subseteq AllocatedNodes(res.h)
    /\ AllocatedNodes(res.h) = ReachableNodes(res.h, res.root)

\* The batches of fresh items that still fit, up to two items long.
FreshBatches ==
    {<<Len(ref) + 1>> : k \in {1} \cap (1..(capacity - Len(ref)))}
        \cup {<<Len(ref) + 1, Len(ref) + 2>> :
                k \in {2} \cap (1..(capacity - Len(ref)))}

\* C32: after every insert or remove that does not panic, with the flag safe,
\* the internal nodes allocated are the ones reachable from the root: remove
\* deallocates each node it detached once, after the upward walk, and no
\* node that is still reachable; insert deallocates nothing.
C32_AllocatedIsReachable ==
    can_safely_destroy =>
        /\ AllocatedNodes(Heap) = ReachableNodes(Heap, root)
        /\ \A x \in Members :
              /\ QueuesDetached(Heap, remove(fanout, Heap, Leaf(x)))
              /\ FreesDetached(list_remove(fanout, Heap, root,
                                           can_safely_destroy, Leaf(x)))
        /\ \A e \in Entries : \A pos \in Positions(e) :
              \A b \in FreshBatches : KeepsNodes(EntryCall(e, pos, b))

\* A list right after a remove, from which a further remove detaches two
\* nodes, a merged node and the root above it.
C32_Witness ==
    /\ lastOp = "remove"
    /\ can_safely_destroy
    /\ \E x \in Members :
          /\ Len(chain(remove(fanout, Heap, Leaf(x)).h,
                       remove(fanout, Heap, Leaf(x)).removed)) = 2
          /\ QueuesDetached(Heap, remove(fanout, Heap, Leaf(x)))

\* ---- C33
\* The internal nodes above n, from its parent up to the root.
RECURSIVE AncestorsOf(_, _)
AncestorsOf(h, n) ==
    IF get_parent(h, n) = NoRef THEN <<>>
    ELSE <<get_parent(h, n)>> \o AncestorsOf(h, get_parent(h, n))

\* Position pos has a parent whose len leaves room for the batch b.
FitsUnderParent(pos, b) ==
    /\ get_parent(Heap, Leaf(pos)) # NoRef
    /\ Heap.len[get_parent(Heap, Leaf(pos)).id] + Len(b) <= max_node_length(fanout)

NotIn(b) == [j \in 1..Len(b) |-> Leaf(b[j])]

\* insert_after(pos, b) returned res and did on every level what the fast
\* path does.
FastPathOnly(pos, b, res) ==
    LET P == get_parent(Heap, Leaf(pos))
        up == SeqRange(AncestorsOf(Heap, Leaf(pos)))
        old(r) == r \notin SeqRange(NotIn(b))
    IN /\ ~res.panic
       /\ res.new_root = root
       /\ res.h.allocated = Heap.allocated
       /\ res.h.len = [Heap.len EXCEPT ![P.id] = @ + Len(b)]
       /\ res.h.size = [n \in Nodes |->
                          IF Internal(n) \in up
                          THEN Heap.size[n] + SumSizes(Heap, b, 1)
                          ELSE Heap.size[n]]
       /\ res.h.key = Heap.key
       /\ res.h.down = Heap.down
       /\ res.h.nnext = Heap.nnext
       /\ \A n \in AllocatedNodes(Heap) :
             SelectSeq(children(res.h, n), old)
                 = children(Heap, n)
       /\ Len(children(res.h, P.id)) = Len(children(Heap, P.id)) + Len(b)

LeftSibling(h, p) ==
    Internal(CHOOSE q \in Nodes :
                 h.allocated[q] /\ next_sibling(h, Internal(q)) = p)

\* The neighbor of an underflowing node p: its right sibling if it has one,
\* its left sibling otherwise.
RightOrLeft(h, p) ==
    IF next_sibling(h, p) # NoRef THEN next_sibling(h, p)
    ELSE LeftSibling(h, p)

\* The levels of the upward walk of remove from `removal` on where taking
\* the child out leaves a node p that is not the root with fewer than
\* min_node_length children; r is what handle_removal returns for `removal`.
RECURSIVE UnderflowsAlong(_, _, _, _)
UnderflowsAlong(f, h, removal, r) ==
    IF r.done THEN <<>>
    ELSE (IF /\ removal.kind = "Remove"
             /\ h.len[r.removal.child.id] - 1 < min_node_length(f)
             /\ next(h, r.removal.child).tag # "none"
          THEN <<[before |-> h, after |-> r.h, p |-> r.removal.child,
                  child |-> removal.child, diff |-> removal.diff,
                  kind |-> r.removal.kind]>>
          ELSE <<>>)
         \o UnderflowsAlong(f, r.h, r.removal,
                            handle_removal(f, r.h, r.removal))

Underflows(x) ==
    UnderflowsAlong(fanout, Heap, Removal(Leaf(x), "Remove", isize[x]),
                    handle_removal(fanout, Heap,
                                   Removal(Leaf(x), "Remove", isize[x])))

OnRight(u) == next_sibling(u.before, u.p) # NoRef

\* The child of the neighbor that is next to the node u.p.
Adjacent(u) ==
    IF OnRight(u) THEN Head(children(u.before, RightOrLeft(u.before, u.p).id))
    ELSE children(u.before, RightOrLeft(u.before, u.p).id)
             [Len(children(u.before, RightOrLeft(u.before, u.p).id))]

\* One child, the adjacent one, has moved from the neighbor n to u.p.
Transferred(u, n) ==
    /\ u.kind = "Update"
    /\ u.after.allocated = u.before.allocated
    /\ children(u.after, n.id) = SeqWithout(children(u.before, n.id), Adjacent(u))
    /\ children(u.after, u.p.id) =
           (IF OnRight(u)
            THEN SeqWithout(children(u.before, u.p.id), u.child) \o <<Adjacent(u)>>
            ELSE <<Adjacent(u)>> \o SeqWithout(children(u.before, u.p.id), u.child))
    /\ u.after.len[n.id] = u.before.len[n.id] - 1
    /\ u.after.len[u.p.id] = u.before.len[u.p.id]
    /\ u.after.size[n.id] = u.before.size[n.id] - node_size(u.before, Adjacent(u))
    /\ u.after.size[u.p.id] =
           u.before.size[u.p.id] - u.diff + node_size(u.before, Adjacent(u))

\* u.p has been emptied into the neighbor n and is the one node handed up
\* for removal.
Merged(u, n) ==
    /\ u.kind = "Remove"
    /\ u.after.allocated = u.before.allocated
    /\ u.after.len[n.id] = u.before.len[n.id] + u.before.len[u.p.id] - 1
    /\ u.after.len[u.p.id] = 0
    /\ u.after.down[u.p.id] = NoRef
    /\ u.after.down[n.id] # NoRef

Rebalanced(f, u, n) ==
    IF u.before.len[n.id] > min_node_length(f) THEN Transferred(u, n)
    ELSE Merged(u, n)

\* The nodes that remove(x) queues, the underflowing nodes it merged among
\* them, each once.
QueuesMerged(x, r) ==
    /\ NoRepeats(chain(r.h, r.removed))
    /\ \A j \in 1..Len(Underflows(x)) :
          (Underflows(x)[j].kind = "Remove")
              <=> (Underflows(x)[j].p \in SeqRange(chain(r.h, r.removed)))

\* C34: when removing a child leaves a node P that is not the root with
\* fewer than min_fanout children, the neighbor N is P's right sibling if it
\* has one and its left sibling otherwise; if N.len > min_fanout one child
\* moves from N to P on the adjacent side, both nodes' len and size follow
\* and no node is deallocated; otherwise P and N are merged and one internal
\* node is queued for deallocation at that level.
C34_Rebalance ==
    \A x \in Members :
        /\ \A j \in 1..Len(Underflows(x)) :
              Rebalanced(fanout, Underflows(x)[j],
                         RightOrLeft(Underflows(x)[j].before, Underflows(x)[j].p))
        /\ QueuesMerged(x, remove(fanout, Heap, Leaf(x)))

\* A list right after a remove from which a further remove makes a node
\* underflow on two levels, one of them with only a left sibling, one of them
\* ending in a transfer and one in a merge.
C34_Witness ==
    /\ lastOp = "remove"
    /\ \E x \in Members :
          /\ Len(Underflows(x)) >= 2
          /\ \E j \in 1..Len(Underflows(x)) : ~OnRight(Underflows(x)[j])
          /\ \E j \in 1..Len(Underflows(x)) : Underflows(x)[j].kind = "Update"
          /\ \E j \in 1..Len(Underflows(x)) : Underflows(x)[j].kind = "Remove"

\* ---- C35
OrNone(s, i) == IF i \in 1..Len(s) THEN Leaf(s[i]) ELSE NoRef

\* Repeated SkipList::next from `leaf` on, until it returns None; fuel bounds
\* the length of what is followed.
RECURSIVE NextsFrom(_, _, _)
NextsFrom(h, leaf, fuel) ==
    IF leaf = NoRef \/ fuel = 0 THEN <<>>
    ELSE <<leaf.id>> \o NextsFrom(h, list_next(h, leaf), fuel - 1)

\* C35: for the item sequence x0..x(n-1) of a tree reached without a panic,
\* next(xi) = x(i+1) and previous(x(i+1)) = xi, next(x(n-1)) and previous(x0)
\* are none, first() = x0, last() = x(n-1), and iter() yields each member
\* once, as repeated next from first() does, and then ends.
C35_Traversal ==
    /\ \A i \in 1..Len(ref) :
          /\ list_next(Heap, Leaf(ref[i])) = OrNone(ref, i + 1)
          /\ list_previous(Heap, Leaf(ref[i])) = OrNone(ref, i - 1)
    /\ first(Heap, root) = OrNone(ref, 1)
    /\ last(Heap, root) = OrNone(ref, Len(ref))
    /\ iter(Heap, root) = ref
    /\ NoRepeats(ref)
    /\ NextsFrom(Heap, first(Heap, root), 2 * NumItems) = ref

\* A three-level list right after a remove, with an item whose successor is
\* under another child of the root.
C35_Witness ==
    /\ lastOp = "remove"
    /\ Depth >= 3
    /\ C35_Traversal
    /\ \E i \in 1..(Len(ref) - 1) :
          /\ next(Heap, Leaf(ref[i])).tag = "parent"
          /\ next(Heap, next(Heap, Leaf(ref[i])).node).tag = "parent"
          /\ list_previous(Heap, Leaf(ref[i + 1])) = Leaf(ref[i])

\* ---- C36
\* C36: remove(x) on a list of which x is no member (x in no list, or x a
\* member of the other list) never changes the list's item sequence: iter()
\* yields the same items afterwards, whether the call panics or not.
C36_ForeignRemoveKeepsItems ==
    Sound =>
        \A u \in ((Len(ref) + 1)..capacity) \cup OtherMembers :
            iter(list_remove(fanout, Heap, root, can_safely_destroy, Leaf(u)).h,
                 list_remove(fanout, Heap, root, can_safely_destroy, Leaf(u)).root)
                = ref

\* The same for the lists whose root is an internal node.
C36_InternalRootKeepsItems ==
    (Sound /\ root.kind = "internal") =>
        \A u \in ((Len(ref) + 1)..capacity) \cup OtherMembers :
            /\ list_remove(fanout, Heap, root, can_safely_destroy, Leaf(u)).panic
            /\ iter(list_remove(fanout, Heap, root, can_safely_destroy, Leaf(u)).h,
                    list_remove(fanout, Heap, root, can_safely_destroy, Leaf(u)).root)
                   = ref

\* ---- C37
\* No remove on the second list and no drop of either list deallocates an
\* internal node, the flag being what it is.
FreesNothing ==
    /\ list_drop(Heap, root, can_safely_destroy).allocated = allocated
    /\ list_drop(Heap, OtherRoot, can_safely_destroy).allocated = allocated
    /\ \A u \in OtherMembers :
          /\ ~list_remove(fanout, Heap, OtherRoot, can_safely_destroy,
                          Leaf(u)).panic
          /\ list_remove(fanout, Heap, OtherRoot, can_safely_destroy,
                         Leaf(u)).h.allocated = allocated

\* C37 as it is stated: once any insert on any list has panicked, every
\* later remove and every later drop of any list of the thread deallocates
\* no internal node.
C37_AnyPanicLatches == lastOp = "panic" => FreesNothing

\* An insert that unwinds from inside the guard of insert_after_from leaves
\* the flag unsafe; with the flag unsafe nothing is deallocated.
LatchedLeaks ==
    /\ ~can_safely_destroy => FreesNothing
    /\ can_safely_destroy =>
          \A p \in 1..Len(ref) : \A m \in Members :
              lnext[m] # NoNext =>
                  /\ insert_after_from(fanout, Heap, root, can_safely_destroy,
                                       Leaf(ref[p]), <<m>>).panic
                  /\ ~insert_after_from(fanout, Heap, root, can_safely_destroy,
                                        Leaf(ref[p]), <<m>>).safe

\* C37: the destroy-safety latch is shared by all lists of a thread and is
\* never reset: once an insert on any list has panicked after its
\* SetUnsafeOnDrop guard was made, the flag stays unsafe, and every later
\* remove and every later drop of any list of the thread deallocates no
\* internal node.
C37_WindowPanicLatches ==
    /\ []LatchedLeaks
    /\ [][~can_safely_destroy => ~can_safely_destroy']_vars

\* The second list has grown after the panic on the first one, and a remove
\* on it detaches a node that stays allocated.
C37_Witness ==
    /\ ~can_safely_destroy
    /\ lastOp = "other"
    /\ FreesNothing
    /\ \E u \in OtherMembers : remove(fanout, Heap, Leaf(u)).removed # NoRef

\* ---- the walks of insert_after and remove, one level at a step
\* The call ended and left the list c; w tells of its walk.
Landed(c, safe, newref, op, w) ==
    /\ HeapBecomes(c.h)
    /\ root' = c.root
    /\ can_safely_destroy' = safe
    /\ ref' = newref
    /\ lastOp' = op
    /\ walk' = w
    /\ UNCHANGED <<fanout, store_keys, capacity, split_iter, chunks>>

Finishes(res, newref, op, w) ==
    /\ ~res.panic
    /\ Landed(canonical(res.h, res.root), res.safe, newref, op, w)

\* One more level of the walk is done; the call goes on from h.
GoesOn(h, w) ==
    /\ HeapBecomes(h)
    /\ walk' = w
    /\ UNCHANGED <<fanout, store_keys, capacity, root, can_safely_destroy, ref,
                   lastOp, split_iter, chunks>>

\* insert_after_from up to the first handle_insertion: r is the list with
\* room for the items, which insert_after's loop has linked in after
\* position p (l is what the loop left).
begins_insert(r, p, l) ==
    /\ l.ok
    /\ HeapBecomes(set_next(l.h, l.pos, next(r.h, Leaf(r.ref[p]))))
    /\ walk' = [op |-> "insert",
                at |-> [count |-> Len(r.items), first |-> Leaf(r.ref[p]),
                        last |-> l.pos, diff |-> SumSizes(r.h, r.items, 1),
                        root |-> NoRef],
                head |-> NoRef, pos |-> p, steps |-> 0,
                levels |-> levels(r.h, r.root), top |-> FALSE]
    /\ root' = r.root
    /\ ref' = Splice(r.ref, p, r.items)
    /\ lastOp' = "walking"
    /\ UNCHANGED <<fanout, store_keys, capacity, can_safely_destroy,
                   split_iter, chunks>>

begin_insert_in(r, p) ==
    begins_insert(r, p, link_items(r.h, Leaf(r.ref[p]), r.items, 1))

BeginInsert ==
    /\ walk.op = "none"
    /\ root # NoRef
    /\ \E p \in 1..Len(ref) : \E b \in Batches(WalkBatch) :
          begin_insert_in(Room(p, b), p)

\* The loop of insert_after: handle_insertion has returned r for one more
\* level; on Done insert_after_from checks the root and stores the new one.
insert_stepped(r) ==
    IF r.done
    THEN Finishes(inserted(root, can_safely_destroy,
                           [h |-> r.h, old_root |-> r.old_root,
                            new_root |-> r.new_root, panic |-> FALSE]),
                  ref, "inserted",
                  Idle(walk.steps + 1, walk.levels,
                       get_parent(Heap, walk.at.last) = NoRef))
    ELSE GoesOn(r.h, [walk EXCEPT !.at = r.insertion, !.steps = @ + 1])

StepInsert ==
    /\ walk.op = "insert"
    /\ insert_stepped(handle_insertion(fanout, Heap, walk.at))

\* SkipList::remove up to the first handle_removal.
BeginRemove ==
    /\ walk.op = "none"
    /\ root # NoRef
    /\ \E p \in 1..Len(ref) :
          walk' = [op |-> "remove",
                   at |-> Removal(Leaf(ref[p]), "Remove", isize[ref[p]]),
                   head |-> NoRef, pos |-> p, steps |-> 0,
                   levels |-> levels(Heap, root), top |-> FALSE]
    /\ lastOp' = "walking"
    /\ UNCHANGED <<fanout, store_keys, capacity, lnext, isize, nnext, down,
                   len, size, key, allocated, root, can_safely_destroy, ref,
                   split_iter, chunks>>

\* The list of removed nodes once the level of walk.at is handled: the first
\* handle_removal, the one for the item, is outside the loop that threads.
walk_head ==
    IF walk.steps > 0 /\ walk.at.kind = "Remove" THEN walk.at.child
    ELSE walk.head

walk_thread(h) == IF walk.steps = 0 THEN h ELSE thread(h, walk.at, walk.head)

\* What remove returns when handle_removal has returned Done in r.
walk_removed(r) ==
    IF walk.steps = 0
    THEN [h |-> r.h, old_root |-> walk.at.child, new_root |-> NoRef,
          removed |-> NoRef]
    ELSE removal_done([h |-> walk_thread(r.h), root |-> r.removal.child,
                       head |-> walk_head])

\* remove: handle_removal has returned r for one more level; on Done
\* SkipList::remove checks the root, destroys the removed nodes and stores
\* the new root.
remove_stepped(r) ==
    IF r.done
    THEN Finishes(forget(removed(root, can_safely_destroy, walk_removed(r)),
                         Len(ref), ref[walk.pos]),
                  RenameSeq(Without(ref, walk.pos),
                            shift_down(Len(ref), ref[walk.pos])),
                  "removed",
                  Idle(walk.steps + 1, walk.levels,
                       get_parent(Heap, walk.at.child) = NoRef))
    ELSE GoesOn(walk_thread(r.h),
                [walk EXCEPT !.at = r.removal, !.head = walk_head,
                             !.steps = @ + 1])

StepRemove ==
    /\ walk.op = "remove"
    /\ remove_stepped(handle_removal(fanout, Heap, walk.at))

\* Lists without keys built by push_back, with insert_after and remove taken
\* one handle_insertion or handle_removal at a step.
InitWalk == InitWith(Fanouts, FALSE, WalkItems)

NextWalk ==
    \/ walk.op = "none" /\ PushBack
    \/ BeginInsert
    \/ StepInsert
    \/ BeginRemove
    \/ StepRemove

SpecWalk == InitWalk /\ [][NextWalk]_vars

\* ---- C38
\* The k-th call of handle_insertion or handle_removal works on level k; the
\* walk of a remove has ended after as many calls as the tree had levels,
\* that of an insert after as many as the tree has levels now, and has seen
\* a node without a parent last.
WalkLevels ==
    /\ walk.op = "remove" =>
          walk.levels - Len(AncestorsOf(Heap, walk.at.child)) = walk.steps + 1
    /\ walk.op = "insert" => levels(Heap, walk.at.first) = walk.steps + 1
    /\ lastOp = "removed" => walk.steps = walk.levels /\ walk.top
    /\ lastOp = "inserted" =>
          walk.steps = Depth /\ walk.levels <= Depth /\ walk.top

\* A call in progress can take its next step: the one thing that could stop
\* it, the panic of the facade once the walk is done, does not happen.
WalkGoesOn ==
    /\ walk.op = "insert" =>
          LET r == handle_insertion(fanout, Heap, walk.at)
          IN r.done =>
                ~inserted(root, can_safely_destroy,
                          [h |-> r.h, old_root |-> r.old_root,
                           new_root |-> r.new_root, panic |-> FALSE]).panic
    /\ walk.op = "remove" =>
          LET r == handle_removal(fanout, Heap, walk.at)
          IN r.done =>
                ~removed(root, can_safely_destroy, walk_removed(r)).panic

\* Every step of a call in progress is one more call of handle_insertion or
\* handle_removal, after which the call is in progress still or has ended.
WalkAdvances ==
    walk.op # "none" =>
        /\ walk'.steps = walk.steps + 1
        /\ walk'.op \in {walk.op, "none"}

\* C38: every insert_after and remove on a well-formed tree terminates: the
\* upward walk handles each level once (remove once per level; insert once
\* per level there was plus once per root level it has made) and ends when a
\* node with no parent is reached.  Termination is stated by its variant: a
\* call in progress can always go on, each of its steps is on the next level
\* up, and no level is above the top of the tree.
C38_WalksEnd ==
    /\ [](WalkLevels /\ WalkGoesOn)
    /\ [][WalkAdvances]_vars

\* An insert has ended that made two new root levels.
C38_Witness ==
    /\ lastOp = "inserted"
    /\ walk.op = "none"
    /\ Depth = walk.levels + 2
    /\ walk.steps = Depth
\* ---- C39
\* The entry point e, called at pos with no items, returns and leaves the
\* heap, the root and the flag as they were.
EmptyBatchKeeps(e, pos) ==
    /\ ~EntryCall(e, pos, <<>>).panic
    /\ EntryCall(e, pos, <<>>).h = Heap
    /\ EntryCall(e, pos, <<>>).root = root
    /\ EntryCall(e, pos, <<>>).safe = can_safely_destroy

\* C39: a batch insert with an empty item sequence (insert_after_from,
\* insert_before_from, push_front_from, push_back_from with no items) leaves
\* the tree entirely unchanged: same root, same shape, same len, size and
\* key at every node, no allocation and no deallocation.
C39_EmptyBatch ==
    \A e \in Entries : \A pos \in Positions(e) : EmptyBatchKeeps(e, pos)
====
